---- MODULE Spec2Model ----
(***************************************************************************)
(* The SFTP -> DHIS2 indicator pipeline of malawi-dhis2-pipeline:          *)
(*   - the six jobs of the sftp-dhis2 workflow and its edges               *)
(*     (check-sftp-files, download-sftp-files, process-excel-data,         *)
(*      generate-dhis2-payload, upload-to-dhis2, update-file-tracking),    *)
(*     run by concurrent cron / webhook / manual runs over one persisted   *)
(*     fileTracking map;                                                   *)
(*   - the indicator matcher generatePayload / findFuzzyMatch, in its      *)
(*     sftp-dhis2 and its reports-data-upload version.                     *)
(* JavaScript strings are TLA+ strings, arrays are sequences, objects with *)
(* dynamic keys are functions whose DOMAIN is the set of own keys.         *)
(***************************************************************************)
EXTENDS Integers, Sequences, FiniteSets, TLC

(* ------------------------------ bounds -------------------------------- *)
\* the clock runs over 0..MaxNow ticks
MaxNow == 2
\* one tick of the clock, in days
DaysPerTick == 30
\* runs triggered in one behaviour
MaxStarts == 2
\* runs in flight at the same time
NumRuns == 2
\* changes made to the files of the SFTP directory in one behaviour
MaxEdits == 1

MaxRecs == 2

MaxVocab == 2
\* executions of a generate-dhis2-payload job on one state
MaxCalls == 2

(* ------------------------- program constants -------------------------- *)
SFTP_DIRECTORY == "/uploads/hiv-indicators/"
SUPPORTED_EXTENSIONS == {".xlsx", ".xls"}
\* thirtyDaysAgo.setDate(thirtyDaysAgo.getDate() - 30)
RetentionDays == 30
\* size: state.data.fileSize || null
NullSize == -1

(* ----------------------------- strings -------------------------------- *)
UpperChars == "ABCDEFGHIJKLMNOPQRSTUVWXYZ"
LowerChars == "abcdefghijklmnopqrstuvwxyz"

CharAt(s, i) == SubSeq(s, i, i)

\* upper-case letter -> its lower-case letter
LowerOf ==
    [c \in {CharAt(UpperChars, i) : i \in 1..Len(UpperChars)} |->
        CharAt(LowerChars, CHOOSE i \in 1..Len(UpperChars) : CharAt(UpperChars, i) = c)]

LowerChar(c) == IF c \in DOMAIN LowerOf THEN LowerOf[c] ELSE c

RECURSIVE ToLowerCase(_)
\* String.prototype.toLowerCase
ToLowerCase(s) ==
    IF s = "" THEN "" ELSE LowerChar(CharAt(s, 1)) \o ToLowerCase(Tail(s))

\* String.prototype.includes
Includes(s, t) ==
    \E i \in 1..(Len(s) - Len(t) + 1) : SubSeq(s, i, i + Len(t) - 1) = t

\* String.prototype.lastIndexOf, 1-based; 0 when c does not occur (JS: -1)
LastIndexOf(s, c) ==
    LET hits == {i \in 1..Len(s) : CharAt(s, i) = c}
    IN  IF hits = {} THEN 0 ELSE CHOOSE i \in hits : \A j \in hits : j <= i

\* file.name.toLowerCase().substring(file.name.lastIndexOf('.'))
\* (substring clamps the -1 of a name without a dot to 0: the whole name)
Extension(name) ==
    LET at == LastIndexOf(name, ".")
        lower == ToLowerCase(name)
    IN  SubSeq(lower, IF at = 0 THEN 1 ELSE at, Len(lower))

\* filePath.split('/').pop()
LastSegment(path) == SubSeq(path, LastIndexOf(path, "/") + 1, Len(path))

(* ------------------------- the SFTP directory ------------------------- *)
\* the spreadsheet files whose size and modification time may change
Files == {"a.xlsx", "B.XLS"}
Sizes == {100, 150}
MTimes == {1, 2}

\* new Date().toISOString() taken at tick t: never a modification time of a listing
IsoTime(t) == 1000 + t

\* what list(SFTP_DIRECTORY) hands to the callback as state.data
Listing(d) ==
    << [name |-> "a.xlsx", type |-> "file", size |-> d["a.xlsx"].size,
        modifiedTime |-> d["a.xlsx"].modifiedTime],
       [name |-> "notes.txt", type |-> "file", size |-> 100, modifiedTime |-> 1],
       [name |-> "B.XLS", type |-> "file", size |-> d["B.XLS"].size,
        modifiedTime |-> d["B.XLS"].modifiedTime],
       [name |-> "old.xlsx", type |-> "directory", size |-> 100, modifiedTime |-> 1] >>

(* --------------------------- objects as maps --------------------------- *)
EmptyMap == [k \in {} |-> 0]

Put(m, k, v) == [x \in (DOMAIN m) \cup {k} |-> IF x = k THEN v ELSE m[x]]

Restrict(m, keys) == [x \in keys |-> m[x]]

\* state.fileTracking: undefined, or the object of tracking entries
MissingTracking == [defined |-> FALSE, entries |-> EmptyMap]

Tracking(m) == [defined |-> TRUE, entries |-> m]

\* state.fileTracking || {}
OrEmpty(ft) == IF ft.defined THEN ft.entries ELSE EmptyMap

\* the body a webhook request puts in state.data; "" and NullSize and 0 stand
\* for an absent filePath / fileName, fileSize and modifiedTime
NoData == [filePath |-> "", fileName |-> "", fileSize |-> NullSize, modifiedTime |-> 0]

\* the files an external notification names
WebhookFiles == {"a.xlsx"}

\* the request bodies: empty, the path alone, or the documented full body
WebhookBodies(d) ==
    {NoData}
    \cup {[filePath |-> SFTP_DIRECTORY \o f, fileName |-> "", fileSize |-> NullSize,
           modifiedTime |-> 0] : f \in WebhookFiles}
    \cup {[filePath |-> SFTP_DIRECTORY \o f, fileName |-> f, fileSize |-> d[f].size,
           modifiedTime |-> d[f].modifiedTime] : f \in WebhookFiles}

(* ------------------------------- state --------------------------------- *)
VARIABLES
    now,        \* the wall clock, in ticks
    dir,        \* the SFTP directory: file name -> [size, modifiedTime]
    store,      \* the persisted fileTracking, the input of the next run
    pc,         \* run -> the job it is about to execute, or how it ended
    state,      \* run -> the OpenFn state object handed from job to job
    starts,     \* runs triggered so far
    edits,      \* directory changes so far
    uploaded,   \* history: <<name, size, modifiedTime>> parsed and sent to DHIS2
    committed,  \* history: <<name, size, modifiedTime>> recorded as processed
    fresh,      \* history: run -> no commit happened since the run read the store
    jobInput,   \* the records in the state handed to a generate-dhis2-payload job
    jobConfig,  \* hivStagesReportMapping of the reportConfig the job uses
    jobPayload, \* what the job has returned, thrown, or not yet run
    jobCalls,   \* how many times the job was executed on this state
    excel       \* the process-excel-data job of the reports workflow under study

pipelineVars == <<now, dir, store, pc, state, starts, edits, uploaded, committed, fresh>>

jobVars == <<jobInput, jobConfig, jobPayload, jobCalls, excel>>

vars == <<pipelineVars, jobVars>>

\* no generate-dhis2-payload job under study
NoInput == [source |-> "none"]

\* no process-excel-data job under study
NoExcel == [stage |-> "none"]

NotRun == [status |-> "not run"]

Thrown == [status |-> "thrown"]

Runs == 1..NumRuns

Jobs == {"CheckSFTPFiles", "DownloadSFTPFiles", "ProcessExcelData",
         "GenerateDHIS2Payload", "UploadToDHIS2", "UpdateFileTracking"}

\* how a run ends: the workflow ran to its last job, stopped at an edge whose
\* condition is false, or a job threw / the run was cancelled
Ended == {"idle", "done", "stopped", "failed"}

\* the state a run starts with
InitialState(ft, body) ==
    [ fileTracking |-> ft, data |-> body,
      newFilesFound |-> FALSE, newFiles |-> <<>>, currentFileList |-> <<>>,
      workflowComplete |-> FALSE,
      filesToDownload |-> <<>>, downloadedFiles |-> <<>>, failedDownloads |-> <<>>,
      processedFiles |-> <<>>, processingErrors |-> <<>>,
      payload |-> FALSE, uploadCompleted |-> FALSE,
      trackingSummary |-> <<>>, workflowCompleted |-> FALSE, completedAt |-> 0,
      error |-> "" ]

\* either nothing was ever persisted, or one cron run has processed and
\* committed the files of the directory at tick 0
AfterFirstRun ==
    Tracking([f \in Files |-> [name |-> f, size |-> 100, modifiedTime |-> 1,
                               processedAt |-> 0, status |-> "processed"]])

Init ==
    /\ now = 0
    /\ dir = [f \in Files |-> [size |-> 100, modifiedTime |-> 1]]
    /\ store \in {MissingTracking, AfterFirstRun}
    /\ pc = [r \in Runs |-> "idle"]
    /\ state = [r \in Runs |-> InitialState(MissingTracking, NoData)]
    /\ starts = 0
    /\ edits = 0
    /\ uploaded = IF store.defined THEN {<<f, 100, 1>> : f \in Files} ELSE {}
    /\ committed = uploaded
    /\ fresh = [r \in Runs |-> TRUE]
    /\ jobInput = NoInput
    /\ jobConfig = <<>>
    /\ jobPayload = NotRun
    /\ jobCalls = 0
    /\ excel = NoExcel

(* ------------------- CheckSFTPFiles (check-sftp-files.js) --------------- *)
\* file.type === 'file' && SUPPORTED_EXTENSIONS.includes(extension)
IsSupported(file) ==
    file.type = "file" /\ Extension(file.name) \in SUPPORTED_EXTENSIONS

FileInfo(file) ==
    [name |-> file.name, size |-> file.size, modifiedTime |-> file.modifiedTime,
     path |-> SFTP_DIRECTORY \o file.name]

\* variant: the size comparison is forgotten
IsNewOrChanged_NoSize(previousFiles, fileInfo) ==
    \/ fileInfo.name \notin DOMAIN previousFiles
    \/ previousFiles[fileInfo.name].modifiedTime # fileInfo.modifiedTime

\* variant: a file without a tracking entry counts as unchanged
IsNewOrChanged_KnownOnly(previousFiles, fileInfo) ==
    /\ fileInfo.name \in DOMAIN previousFiles
    /\ \/ previousFiles[fileInfo.name].modifiedTime # fileInfo.modifiedTime
       \/ previousFiles[fileInfo.name].size # fileInfo.size

\* !previousFile || previousFile.modifiedTime !== fileInfo.modifiedTime
\*               || previousFile.size !== fileInfo.size
IsNewOrChanged(previousFiles, fileInfo) ==
    \/ fileInfo.name \notin DOMAIN previousFiles
    \/ previousFiles[fileInfo.name].modifiedTime # fileInfo.modifiedTime
    \/ previousFiles[fileInfo.name].size # fileInfo.size

\* currentFiles: the supported files of the listing, in listing order
CurrentFiles(listing) ==
    LET supported == SelectSeq(listing, IsSupported)
    IN  [i \in 1..Len(supported) |-> FileInfo(supported[i])]

\* newFiles: the files of currentFiles that are new or changed
NewFiles(ft, listing) ==
    LET previousFiles == OrEmpty(ft)
        Test(fileInfo) == IsNewOrChanged(previousFiles, fileInfo)
    IN  SelectSeq(CurrentFiles(listing), Test)

\* variant: CheckSFTPFiles records what it lists as tracked
CheckSFTPFilesJob_Commits(st, listing) ==
    LET newFiles == NewFiles(st.fileTracking, listing)
        current == CurrentFiles(listing)
    IN  [st EXCEPT !.data = NoData,
                   !.newFilesFound = (newFiles # <<>>),
                   !.newFiles = newFiles,
                   !.currentFileList = current,
                   !.workflowComplete = (newFiles = <<>>),
                   !.fileTracking =
                       Tracking([k \in {current[i].name : i \in 1..Len(current)} |->
                                   CHOOSE f \in {current[i] : i \in 1..Len(current)} :
                                       f.name = k])]

\* the state the job returns: both of its operations
\* variant: newFilesFound is set whatever the listing holds
CheckSFTPFilesJob_AlwaysFound(st, listing) ==
    LET newFiles == NewFiles(st.fileTracking, listing)
    IN  [st EXCEPT !.data = NoData,
                   !.newFilesFound = TRUE,
                   !.newFiles = newFiles,
                   !.currentFileList = CurrentFiles(listing),
                   !.workflowComplete = FALSE]

CheckSFTPFilesJob(st, listing) ==
    LET newFiles == NewFiles(st.fileTracking, listing)
    IN  [st EXCEPT !.data = NoData,
                   !.newFilesFound = (newFiles # <<>>),
                   !.newFiles = newFiles,
                   !.currentFileList = CurrentFiles(listing),
                   !.workflowComplete = (newFiles = <<>>)]

(* ---------------- DownloadSFTPFiles (download-sftp-files.js) ------------ *)
\* variant: only the files of the cron check are downloaded
FilesToDownload_NewFilesOnly(st, t) == st.newFiles

\* the first operation's filesToDownload; <<>> when no file is specified
FilesToDownload(st, t) ==
    IF st.newFiles # <<>>
    THEN st.newFiles
    ELSE IF st.data.filePath # ""
    THEN << [name |-> IF st.data.fileName # "" THEN st.data.fileName
                      ELSE LastSegment(st.data.filePath),
             path |-> st.data.filePath,
             size |-> st.data.fileSize,
             modifiedTime |-> IF st.data.modifiedTime # 0 THEN st.data.modifiedTime
                              ELSE IsoTime(t)] >>
    ELSE <<>>

WithStatus(file, status) ==
    [name |-> file.name, size |-> file.size, modifiedTime |-> file.modifiedTime,
     path |-> file.path, status |-> status]

\* the results of Promise.all: one per file, get() having thrown for those in failing
DownloadResults(files, failing) ==
    [i \in 1..Len(files) |->
        WithStatus(files[i], IF i \in failing THEN "failed" ELSE "downloaded")]

IsDownloaded(f) == f.status = "downloaded"

IsFailed(f) == f.status = "failed"

SuccessfulDownloads(results) == SelectSeq(results, IsDownloaded)

FailedDownloads(results) == SelectSeq(results, IsFailed)

(* ----------------- ProcessExcelData (process-excel-data.js) ------------- *)
RECURSIVE ProcessedFrom_Aborts(_, _, _)
\* variant: no try/catch around parseExcelData, the first throw ends the loop
ProcessedFrom_Aborts(files, bad, i) ==
    IF i > Len(files) \/ i \in bad THEN <<>>
    ELSE <<WithStatus(files[i], "processed")>> \o ProcessedFrom_Aborts(files, bad, i + 1)

RECURSIVE ProcessedFrom(_, _, _)
\* the forEach over downloadedFiles from index i on: a file is pushed to
\* processedFiles unless parseExcelData throws for it (the indices in bad)
ProcessedFrom(files, bad, i) ==
    IF i > Len(files) THEN <<>>
    ELSE (IF i \in bad THEN <<>> ELSE <<WithStatus(files[i], "processed")>>)
         \o ProcessedFrom(files, bad, i + 1)

RECURSIVE ErrorsFrom(_, _, _)
\* the catch branch of the same loop: one processingErrors entry per throw
ErrorsFrom(files, bad, i) ==
    IF i > Len(files) THEN <<>>
    ELSE (IF i \in bad THEN <<[fileName |-> files[i].name, error |-> "parse"]>> ELSE <<>>)
         \o ErrorsFrom(files, bad, i + 1)

(* -------------- UpdateFileTracking (update-file-tracking.js) ------------ *)
DayOf(t) == t * DaysPerTick

RECURSIVE MarkProcessed(_, _, _)
\* state.processedFiles.forEach(file => newFileTracking[file.name] = trackingInfo)
MarkProcessed(m, files, t) ==
    IF files = <<>> THEN m
    ELSE MarkProcessed(
            Put(m, Head(files).name,
                [name |-> Head(files).name, size |-> Head(files).size,
                 modifiedTime |-> Head(files).modifiedTime,
                 processedAt |-> t, status |-> "processed"]),
            Tail(files), t)

RECURSIVE MarkChecked_Overwrites(_, _, _)
\* variant: every listed file is marked 'checked', tracked already or not
MarkChecked_Overwrites(m, current, t) ==
    IF current = <<>> THEN m
    ELSE MarkChecked_Overwrites(
            Put(m, Head(current).name,
                [name |-> Head(current).name, size |-> Head(current).size,
                 modifiedTime |-> Head(current).modifiedTime,
                 lastChecked |-> t, status |-> "checked"]),
            Tail(current), t)

RECURSIVE MarkChecked(_, _, _)
\* Object.entries(state.currentFileList).forEach: if (!newFileTracking[fileKey])
\*   newFileTracking[fileKey] = {...fileInfo, lastChecked, status: 'checked'}
MarkChecked(m, current, t) ==
    IF current = <<>> THEN m
    ELSE MarkChecked(
            IF Head(current).name \in DOMAIN m THEN m
            ELSE Put(m, Head(current).name,
                     [name |-> Head(current).name, size |-> Head(current).size,
                      modifiedTime |-> Head(current).modifiedTime,
                      lastChecked |-> t, status |-> "checked"]),
            Tail(current), t)

\* new Date(fileInfo.processedAt || fileInfo.lastChecked || 0), in days
EntryDay(e) ==
    IF "processedAt" \in DOMAIN e THEN DayOf(e.processedAt)
    ELSE IF "lastChecked" \in DOMAIN e THEN DayOf(e.lastChecked)
    ELSE -20000

\* variant: an entry exactly thirty days old is deleted as well
IsExpired_Inclusive(e, t) == EntryDay(e) <= DayOf(t) - RetentionDays

\* if (fileDate < thirtyDaysAgo) delete newFileTracking[fileKey]
IsExpired(e, t) == EntryDay(e) < DayOf(t) - RetentionDays

\* variant: the job deletes nothing
CleanUp_Nothing(m, t) == m

CleanUp(m, t) == Restrict(m, {k \in DOMAIN m : ~IsExpired(m[k], t)})

\* newFileTracking at the end of the job
NewFileTracking(st, t) ==
    CleanUp(MarkChecked(MarkProcessed(OrEmpty(st.fileTracking), st.processedFiles, t),
                        st.currentFileList, t), t)

\* the state the job returns
UpdateFileTrackingJob(st, t) ==
    IF ~st.uploadCompleted THEN st
    ELSE [st EXCEPT !.fileTracking = Tracking(NewFileTracking(st, t)),
                    !.trackingSummary =
                        <<Cardinality(DOMAIN NewFileTracking(st, t)), Len(st.processedFiles)>>,
                    !.workflowCompleted = TRUE,
                    !.completedAt = t]

Versions(files) == {<<files[i].name, files[i].size, files[i].modifiedTime>> : i \in 1..Len(files)}

(* ------------------------------ actions -------------------------------- *)
\* a trigger fires (project.yaml triggers and trigger edges): the run reads the
\* persisted fileTracking; cron and manual enter at CheckSFTPFiles, the
\* file-change webhook at DownloadSFTPFiles with the request body in state.data
StartRun(r, trig, body) ==
    /\ pc[r] \in Ended
    /\ \A q \in Runs : q < r => pc[q] \notin Ended
    /\ starts < MaxStarts
    /\ starts' = starts + 1
    /\ state' = [state EXCEPT ![r] = InitialState(store, body)]
    /\ pc' = [pc EXCEPT ![r] = IF trig = "webhook" THEN "DownloadSFTPFiles"
                               ELSE "CheckSFTPFiles"]
    /\ fresh' = [fresh EXCEPT ![r] = TRUE]
    /\ UNCHANGED <<now, dir, store, edits, uploaded, committed>>
    /\ UNCHANGED jobVars

\* edge CheckSFTPFilesToDownloadSFTPFiles: on_job_success, state.newFilesFound === true
CheckSFTPFiles(r) ==
    /\ pc[r] = "CheckSFTPFiles"
    /\ state' = [state EXCEPT ![r] = CheckSFTPFilesJob(state[r], Listing(dir))]
    /\ pc' = [pc EXCEPT ![r] = IF state'[r].newFilesFound = TRUE
                               THEN "DownloadSFTPFiles" ELSE "stopped"]
    /\ UNCHANGED <<now, dir, store, starts, edits, uploaded, committed, fresh>>
    /\ UNCHANGED jobVars

\* with no file specified the first operation returns no filesToDownload and
\* the second throws on state.filesToDownload.map
DownloadSFTPFiles(r) ==
    /\ pc[r] = "DownloadSFTPFiles"
    /\ LET files == FilesToDownload(state[r], now)
       IN  IF files = <<>>
           THEN /\ state' = [state EXCEPT ![r].downloadedFiles = <<>>,
                                          ![r].error = "No files specified for download"]
                /\ pc' = [pc EXCEPT ![r] = "failed"]
           ELSE \E failing \in SUBSET (1..Len(files)) :
                /\ state' = [state EXCEPT
                       ![r].filesToDownload = files,
                       ![r].downloadedFiles =
                           SuccessfulDownloads(DownloadResults(files, failing)),
                       ![r].failedDownloads =
                           FailedDownloads(DownloadResults(files, failing))]
                /\ pc' = [pc EXCEPT ![r] = "ProcessExcelData"]
    /\ UNCHANGED <<now, dir, store, starts, edits, uploaded, committed, fresh>>
    /\ UNCHANGED jobVars

ProcessExcelData(r) ==
    /\ pc[r] = "ProcessExcelData"
    /\ LET files == state[r].downloadedFiles
       IN  IF files = <<>>
           THEN state' = [state EXCEPT ![r].processedFiles = <<>>,
                                       ![r].error = "No downloaded files to process"]
           ELSE \E bad \in SUBSET (1..Len(files)) :
                state' = [state EXCEPT
                    ![r].processedFiles = ProcessedFrom(files, bad, 1),
                    ![r].processingErrors = ErrorsFrom(files, bad, 1)]
    /\ pc' = [pc EXCEPT ![r] = "GenerateDHIS2Payload"]
    /\ UNCHANGED <<now, dir, store, starts, edits, uploaded, committed, fresh>>
    /\ UNCHANGED jobVars

\* variant: the payload is generated whatever state.processedFiles holds
GenerateDHIS2Payload_Unguarded(r) ==
    /\ pc[r] = "GenerateDHIS2Payload"
    /\ pc' = [pc EXCEPT ![r] = "UploadToDHIS2"]
    /\ state' = [state EXCEPT ![r].payload = TRUE]
    /\ UNCHANGED <<now, dir, store, starts, edits, uploaded, committed, fresh>>
    /\ UNCHANGED jobVars

\* throws when state.processedFiles is missing or empty
GenerateDHIS2Payload(r) ==
    /\ pc[r] = "GenerateDHIS2Payload"
    /\ IF state[r].processedFiles = <<>>
       THEN /\ pc' = [pc EXCEPT ![r] = "failed"]
            /\ UNCHANGED state
       ELSE /\ pc' = [pc EXCEPT ![r] = "UploadToDHIS2"]
            /\ state' = [state EXCEPT ![r].payload = TRUE]
    /\ UNCHANGED <<now, dir, store, starts, edits, uploaded, committed, fresh>>
    /\ UNCHANGED jobVars

\* throws without a payload; otherwise create("dataValueSets") sends it and the
\* last operation sets uploadCompleted
UploadToDHIS2(r) ==
    /\ pc[r] = "UploadToDHIS2"
    /\ IF ~state[r].payload
       THEN /\ pc' = [pc EXCEPT ![r] = "failed"]
            /\ UNCHANGED <<state, uploaded>>
       ELSE /\ pc' = [pc EXCEPT ![r] = "UpdateFileTracking"]
            /\ state' = [state EXCEPT ![r].uploadCompleted = TRUE]
            /\ uploaded' = uploaded \cup Versions(state[r].processedFiles)
    /\ UNCHANGED <<now, dir, store, starts, edits, committed, fresh>>
    /\ UNCHANGED jobVars

\* the last job: the fileTracking of the state it returns is what is persisted
UpdateFileTracking(r) ==
    /\ pc[r] = "UpdateFileTracking"
    /\ state' = [state EXCEPT ![r] = UpdateFileTrackingJob(state[r], now)]
    /\ pc' = [pc EXCEPT ![r] = "done"]
    /\ store' = state'[r].fileTracking
    /\ committed' = IF state[r].uploadCompleted
                    THEN committed \cup Versions(state[r].processedFiles)
                    ELSE committed
    /\ fresh' = IF state[r].uploadCompleted THEN [q \in Runs |-> FALSE] ELSE fresh
    /\ UNCHANGED <<now, dir, starts, edits, uploaded>>
    /\ UNCHANGED jobVars

\* a job throws on its collaborator (list, create) or the run is cancelled:
\* every job edge is on_job_success, so nothing runs after it
Fail(r) ==
    /\ pc[r] \in Jobs
    /\ pc' = [pc EXCEPT ![r] = "failed"]
    /\ UNCHANGED <<now, dir, store, state, starts, edits, uploaded, committed, fresh>>
    /\ UNCHANGED jobVars

\* a job takes seconds and a tick is DaysPerTick days: the clock moves between runs
Tick ==
    /\ now < MaxNow
    /\ \A r \in Runs : pc[r] \in Ended
    /\ now' = now + 1
    /\ UNCHANGED <<dir, store, pc, state, starts, edits, uploaded, committed, fresh>>
    /\ UNCHANGED jobVars

\* a facility replaces a file on the SFTP server
ModifyFile(f, size, mtime) ==
    /\ edits < MaxEdits
    /\ <<size, mtime>> # <<dir[f].size, dir[f].modifiedTime>>
    /\ edits' = edits + 1
    /\ dir' = [dir EXCEPT ![f] = [size |-> size, modifiedTime |-> mtime]]
    /\ UNCHANGED <<now, store, pc, state, starts, uploaded, committed, fresh>>
    /\ UNCHANGED jobVars

Next ==
    \/ \E r \in Runs : StartRun(r, "cron", NoData)
    \/ \E r \in Runs : StartRun(r, "manual", NoData)
    \/ \E r \in Runs : \E body \in WebhookBodies(dir) : StartRun(r, "webhook", body)
    \/ \E r \in Runs : CheckSFTPFiles(r)
    \/ \E r \in Runs : DownloadSFTPFiles(r)
    \/ \E r \in Runs : ProcessExcelData(r)
    \/ \E r \in Runs : GenerateDHIS2Payload(r)
    \/ \E r \in Runs : UploadToDHIS2(r)
    \/ \E r \in Runs : UpdateFileTracking(r)
    \/ \E r \in Runs : Fail(r)
    \/ Tick
    \/ \E f \in Files : \E size \in Sizes : \E mtime \in MTimes : ModifyFile(f, size, mtime)

Spec == Init /\ [][Next]_vars

(* ------------------------- JavaScript values --------------------------- *)
\* a cell or field value: a number, NaN, a string, or undefined
Num(n) == [t |-> "number", n |-> n, s |-> ""]

Str(s) == [t |-> "string", n |-> 0, s |-> s]

NaN == [t |-> "NaN", n |-> 0, s |-> ""]

Undefined == [t |-> "undefined", n |-> 0, s |-> ""]

\* ToBoolean: 0, NaN, '' and undefined are falsy
Truthy(v) ==
    CASE v.t = "number" -> v.n # 0
      [] v.t = "string" -> v.s # ""
      [] OTHER -> FALSE

\* a || b
Or(a, b) == IF Truthy(a) THEN a ELSE b

DigitChars == "0123456789"

IsDigit(c) == \E i \in 1..Len(DigitChars) : CharAt(DigitChars, i) = c

DigitValue(c) == (CHOOSE i \in 1..Len(DigitChars) : CharAt(DigitChars, i) = c) - 1

RECURSIVE DigitsValue(_, _)
\* the number written by the leading digits of s, after acc
DigitsValue(s, acc) ==
    IF s = "" \/ ~IsDigit(CharAt(s, 1)) THEN acc
    ELSE DigitsValue(Tail(s), 10 * acc + DigitValue(CharAt(s, 1)))

RECURSIVE NatToString(_)
NatToString(n) ==
    IF n < 10 THEN CharAt(DigitChars, n + 1)
    ELSE NatToString(n \div 10) \o CharAt(DigitChars, (n % 10) + 1)

RECURSIVE TrimStart(_)
TrimStart(s) == IF s # "" /\ CharAt(s, 1) = " " THEN TrimStart(Tail(s)) ELSE s

RECURSIVE TrimEnd(_)
TrimEnd(s) ==
    IF s # "" /\ CharAt(s, Len(s)) = " " THEN TrimEnd(SubSeq(s, 1, Len(s) - 1)) ELSE s

\* String.prototype.trim
Trim(s) == TrimEnd(TrimStart(s))

\* the string a template literal `${v}` writes
JsString(v) ==
    CASE v.t = "string" -> v.s
      [] v.t = "number" -> IF v.n < 0 THEN "-" \o NatToString(-v.n) ELSE NatToString(v.n)
      [] v.t = "NaN" -> "NaN"
      [] OTHER -> "undefined"

\* parseFloat: a number is itself; a string is read by its leading (signed)
\* decimal digits after whitespace, NaN when it has none
ParseFloat(v) ==
    CASE v.t = "number" -> v
      [] v.t = "string" ->
            LET body == TrimStart(v.s)
                neg == body # "" /\ CharAt(body, 1) = "-"
                digits == IF body # "" /\ CharAt(body, 1) \in {"-", "+"}
                          THEN Tail(body) ELSE body
            IN  IF digits = "" \/ ~IsDigit(CharAt(digits, 1)) THEN NaN
                ELSE Num(IF neg THEN -DigitsValue(digits, 0) ELSE DigitsValue(digits, 0))
      [] OTHER -> NaN

\* parseFloat(value) || 0
ParseFloatOrZero(v) == IF Truthy(ParseFloat(v)) THEN ParseFloat(v).n ELSE 0

(* ------------------ the observed index: indicatorValues ----------------- *)
\* a JS object as the sequence of its [key, value] properties in creation order
HasOwn(obj, k) == \E i \in 1..Len(obj) : obj[i].key = k

Get(obj, k) == obj[CHOOSE i \in 1..Len(obj) : obj[i].key = k].value

\* obj[k] = v: a new property goes last, an existing one keeps its place
Set(obj, k, v) ==
    IF HasOwn(obj, k)
    THEN [i \in 1..Len(obj) |-> IF obj[i].key = k THEN [key |-> k, value |-> v] ELSE obj[i]]
    ELSE Append(obj, [key |-> k, value |-> v])

\* a canonical array index: "0", or digits without a leading zero
IsIndexKey(k) ==
    /\ k # ""
    /\ \A i \in 1..Len(k) : IsDigit(CharAt(k, i))
    /\ (Len(k) > 1 => CharAt(k, 1) # "0")

RECURSIVE SortedByIndex(_)
\* the index keys in ascending numeric order
SortedByIndex(keys) ==
    IF keys = {} THEN <<>>
    ELSE LET least == CHOOSE k \in keys :
                        \A other \in keys : DigitsValue(k, 0) <= DigitsValue(other, 0)
         IN  <<least>> \o SortedByIndex(keys \ {least})

IsNotIndexKey(k) == ~IsIndexKey(k)

\* variant: the order of the keys differs from one execution to the next
ObjectKeys_Unstable(obj) ==
    IF jobCalls = 0 THEN [i \in 1..Len(obj) |-> obj[i].key]
    ELSE [i \in 1..Len(obj) |-> obj[Len(obj) + 1 - i].key]

\* Object.keys: index keys first in ascending order, then the other keys in
\* creation order
ObjectKeys(obj) ==
    LET created == [i \in 1..Len(obj) |-> obj[i].key]
    IN  SortedByIndex({created[i] : i \in {j \in 1..Len(created) : IsIndexKey(created[j])}})
        \o SelectSeq(created, IsNotIndexKey)

(* ---- generatePayload, sftp-dhis2 workflow: extraction of indicatorValues -- *)
RECURSIVE SftpIndicators(_, _)
\* file.excelData.indicators.forEach: the value is kept unless the stored one
\* is truthy and not smaller
SftpIndicators(obj, indicators) ==
    IF indicators = <<>> THEN obj
    ELSE LET key == Trim(Head(indicators).indicator.s)
             value == ParseFloatOrZero(Head(indicators).value)
         IN  SftpIndicators(
                 IF ~HasOwn(obj, key) \/ Get(obj, key) = 0 \/ Get(obj, key) < value
                 THEN Set(obj, key, value) ELSE obj,
                 Tail(indicators))

RECURSIVE SiteKeyed(_, _)
\* queries / sites .forEach: key `${site}_${indicator}`.trim(), last value wins
SiteKeyed(obj, records) ==
    IF records = <<>> THEN obj
    ELSE SiteKeyed(
             Set(obj,
                 Trim(JsString(Head(records).site) \o "_" \o JsString(Head(records).indicator)),
                 ParseFloatOrZero(Head(records).value)),
             Tail(records))

RECURSIVE SftpIndicatorValues(_, _)
\* processedFiles.forEach(file => indicators, then queries)
SftpIndicatorValues(obj, files) ==
    IF files = <<>> THEN obj
    ELSE SftpIndicatorValues(
             SiteKeyed(SftpIndicators(obj, Head(files).excelData.indicators),
                       Head(files).excelData.queries),
             Tail(files))

(* -- generatePayload, reports-data-upload workflow: extraction, three formats -- *)
RECURSIVE SheetRows(_, _)
\* sftp_excel: sheetData.data.forEach(row => ...); a row has the columns
\* Indicator, Value and Site
SheetRows(obj, rows) ==
    IF rows = <<>> THEN obj
    ELSE LET indicatorName == Or(Head(rows).indicator, Undefined)
             value == Or(Head(rows).value, Undefined)
             site == Or(Head(rows).site, Undefined)
             indicatorKey == IF Truthy(site)
                             THEN JsString(site) \o "_" \o JsString(indicatorName)
                             ELSE JsString(indicatorName)
         IN  SheetRows(
                 IF Truthy(indicatorName) /\ value # Undefined /\ value # Str("")
                 THEN Set(obj, Trim(indicatorKey), ParseFloatOrZero(value)) ELSE obj,
                 Tail(rows))

RECURSIVE SheetsIndicatorValues(_, _)
\* Object.entries(inputData.sheets).forEach
SheetsIndicatorValues(obj, sheets) ==
    IF sheets = <<>> THEN obj
    ELSE SheetsIndicatorValues(SheetRows(obj, Head(sheets)), Tail(sheets))

RECURSIVE GoogleRows(_, _)
\* Google Sheets: inputData.processedData.forEach(row => ...); a row has the
\* columns Indicator and Value
GoogleRows(obj, rows) ==
    IF rows = <<>> THEN obj
    ELSE LET indicatorName == Or(Head(rows).indicator, Undefined)
             value == Or(Head(rows).value, Undefined)
         IN  GoogleRows(
                 IF Truthy(indicatorName) /\ value # Undefined /\ value # Str("")
                 THEN Set(obj, Trim(JsString(indicatorName)), ParseFloatOrZero(value))
                 ELSE obj,
                 Tail(rows))

RECURSIVE RawIndicators(_, _, _)
\* raw Excel: file.indicators.forEach, last value wins
RawIndicators(obj, indicators, fileName) ==
    IF indicators = <<>> THEN obj
    ELSE LET key == IF Truthy(Head(indicators).indicator)
                    THEN JsString(Head(indicators).indicator)
                    ELSE fileName \o "_" \o NatToString(Head(indicators).rowIndex)
         IN  RawIndicators(Set(obj, Trim(key), ParseFloatOrZero(Head(indicators).value)),
                           Tail(indicators), fileName)

RECURSIVE RawIndicatorValues(_, _)
\* inputData.processedFiles.forEach(file => indicators, queries, sites)
RawIndicatorValues(obj, files) ==
    IF files = <<>> THEN obj
    ELSE RawIndicatorValues(
             SiteKeyed(SiteKeyed(RawIndicators(obj, Head(files).indicators, Head(files).fileName),
                                 Head(files).queries),
                       Head(files).sites),
             Tail(files))

\* the three branches on inputData; source names the field inputData carries:
\* source === 'sftp_excel' (sheets), processedData, or processedFiles
ReportsIndicatorValues(inputData) ==
    IF inputData.source = "sftp_excel" THEN SheetsIndicatorValues(<<>>, inputData.sheets)
    ELSE IF inputData.source = "google_sheets" THEN GoogleRows(<<>>, inputData.processedData)
    ELSE IF inputData.source = "raw_excel" THEN RawIndicatorValues(<<>>, inputData.processedFiles)
    ELSE <<>>

(* --------------------------- findFuzzyMatch ---------------------------- *)
IsSeparator(c) == c \in {" ", "-", "_"}

RECURSIVE SplitWords(_, _, _)
\* s.split(/[\s\-_]+/) from position i on, word being the token read so far:
\* a run of separators ends one token; a leading or trailing run leaves an
\* empty token
SplitWords(s, i, word) ==
    IF i > Len(s) THEN <<word>>
    ELSE IF IsSeparator(CharAt(s, i))
    THEN IF i > 1 /\ IsSeparator(CharAt(s, i - 1))
         THEN SplitWords(s, i + 1, word)
         ELSE <<word>> \o SplitWords(s, i + 1, "")
    ELSE SplitWords(s, i + 1, word \o CharAt(s, i))

Words(s) == SplitWords(ToLowerCase(s), 1, "")

\* +2 for an equal pair of words, +1 when one contains the other
PairScore(targetWord, candidateWord) ==
    IF targetWord = candidateWord THEN 2
    ELSE IF Includes(targetWord, candidateWord) \/ Includes(candidateWord, targetWord)
    THEN 1 ELSE 0

RECURSIVE SumOver(_, _, _)
SumOver(targetWords, candidateWords, k) ==
    IF k > Len(targetWords) * Len(candidateWords) THEN 0
    ELSE PairScore(targetWords[((k - 1) \div Len(candidateWords)) + 1],
                   candidateWords[((k - 1) % Len(candidateWords)) + 1])
         + SumOver(targetWords, candidateWords, k + 1)

\* Math.max(targetWords.length, candidateWords.length)
MaxLength(targetWords, candidateWords) ==
    IF Len(targetWords) >= Len(candidateWords) THEN Len(targetWords) ELSE Len(candidateWords)

RECURSIVE FuzzyFrom_LastOnTies(_, _, _, _)
\* variant: a candidate replaces the best one on an equal score as well
FuzzyFrom_LastOnTies(targetWords, candidates, i, best) ==
    IF i > Len(candidates) THEN best
    ELSE LET candidateWords == Words(candidates[i])
             num == SumOver(targetWords, candidateWords, 1)
             den == MaxLength(targetWords, candidateWords)
         IN  FuzzyFrom_LastOnTies(targetWords, candidates, i + 1,
                 IF num * best.den >= best.num * den /\ 2 * num > den
                 THEN [found |-> TRUE, key |-> candidates[i], num |-> num, den |-> den]
                 ELSE best)

RECURSIVE FuzzyFrom(_, _, _, _)
\* candidates.forEach from index i on; best is [found, key, num, den], the
\* best score being num / den:
\* normalizedScore > bestScore && normalizedScore > 0.5
FuzzyFrom(targetWords, candidates, i, best) ==
    IF i > Len(candidates) THEN best
    ELSE LET candidateWords == Words(candidates[i])
             num == SumOver(targetWords, candidateWords, 1)
             den == MaxLength(targetWords, candidateWords)
         IN  FuzzyFrom(targetWords, candidates, i + 1,
                 IF num * best.den > best.num * den /\ 2 * num > den
                 THEN [found |-> TRUE, key |-> candidates[i], num |-> num, den |-> den]
                 ELSE best)

\* bestMatch: found is FALSE for null
FindFuzzyMatch(target, candidates) ==
    FuzzyFrom(Words(target), candidates, 1,
              [found |-> FALSE, key |-> "", num |-> 0, den |-> 1])

(* ----------------------- generatePayload: matching ---------------------- *)
\* Array.prototype.find over keys, passes[i] telling whether keys[i] passes the
\* callback: the first key passing
FirstAt(keys, passes) ==
    LET hits == {i \in 1..Len(keys) : passes[i]}
    IN  IF hits = {} THEN [found |-> FALSE, key |-> ""]
        ELSE [found |-> TRUE, key |-> keys[CHOOSE i \in hits : \A j \in hits : i <= j]]

\* if (match): a key found and not the empty string
Usable(m) == m.found /\ m.key # ""

\* variant: the last step leaves matchType as it was initialised
DefaultMatch_None ==
    [value |-> 0, matchType |-> "none", counted |-> "noMatches", source |-> ""]

\* if (value === undefined): value = 0, matchType = 'default', noMatches++
DefaultMatch ==
    [value |-> 0, matchType |-> "default", counted |-> "noMatches", source |-> ""]

\* the four strategies and the default, for one entry of the mapping
MatchIndicator(indicatorValues, indicatorKey) ==
    LET keys == ObjectKeys(indicatorValues)
        lowerKey == ToLowerCase(indicatorKey)
        SameIgnoringCase(key) == ToLowerCase(key) = lowerKey
        Contains(key) == \/ Includes(ToLowerCase(key), lowerKey)
                         \/ Includes(lowerKey, ToLowerCase(key))
        exactMatch == FirstAt(keys, [i \in 1..Len(keys) |-> SameIgnoringCase(keys[i])])
        partialMatch == FirstAt(keys, [i \in 1..Len(keys) |-> Contains(keys[i])])
        fuzzyMatch == FindFuzzyMatch(indicatorKey, keys)
    IN  IF HasOwn(indicatorValues, indicatorKey)
        THEN [value |-> Get(indicatorValues, indicatorKey), matchType |-> "exact",
              counted |-> "exactMatches", source |-> indicatorKey]
        ELSE IF Usable(exactMatch)
        THEN [value |-> Get(indicatorValues, exactMatch.key),
              matchType |-> "exact_case_insensitive",
              counted |-> "exactMatches", source |-> exactMatch.key]
        ELSE IF Usable(partialMatch)
        THEN [value |-> Get(indicatorValues, partialMatch.key), matchType |-> "partial",
              counted |-> "partialMatches", source |-> partialMatch.key]
        ELSE IF Usable(fuzzyMatch)
        THEN [value |-> Get(indicatorValues, fuzzyMatch.key), matchType |-> "fuzzy",
              counted |-> "partialMatches", source |-> fuzzyMatch.key]
        ELSE DefaultMatch

\* hivStagesReportMapping of defaultReportConfig
DefaultMapping ==
    << [key |-> "HTS_TST", value |-> "FTRrcoaog83"],
       [key |-> "HTS_TST_POS", value |-> "ybzlGLjWwnK"],
       [key |-> "HTS_INDEX", value |-> "CklPZdOd6H1"],
       [key |-> "TX_NEW", value |-> "dwEq7wi6nXV"],
       [key |-> "TX_CURR", value |-> "ZiOVcrSjSYe"],
       [key |-> "TX_PVLS", value |-> "RE0iJ0hANDC"],
       [key |-> "PrEP_NEW", value |-> "G7vUx908SwP"],
       [key |-> "PrEP_CT", value |-> "mFkjPTqYNlX"],
       [key |-> "PMTCT_STAT", value |-> "Tt5TAvdfdz7"],
       [key |-> "PMTCT_ART", value |-> "jjZWrxtK9z2"],
       [key |-> "TB_ART", value |-> "FjjP1Gs6kHf"],
       [key |-> "TB_STAT", value |-> "V37YqbqpEhV"] >>

\* catAttrCombo, dataSet, period and orgUnit of defaultReportConfig
DefaultCoordinates ==
    [catAttrCombo |-> "HllvX50cXC0", dataSet |-> "BfMAe6Itzgt", period |-> "202506",
     orgUnit |-> "rXoaHGAXWy9"]

\* a reportConfig: the ids of defaultReportConfig with the given mapping
ReportConfig(mapping) ==
    [catAttrCombo |-> "HllvX50cXC0", dataSet |-> "BfMAe6Itzgt", period |-> "202506",
     orgUnit |-> "rXoaHGAXWy9", hivStagesReportMapping |-> mapping]

\* the outcome of the strategies for every entry of the mapping, in the order
\* of Object.entries
Matches(indicatorValues, reportConfig) ==
    LET entries == ObjectKeys(reportConfig.hivStagesReportMapping)
    IN  [i \in 1..Len(entries) |->
            [key |-> entries[i], match |-> MatchIndicator(indicatorValues, entries[i])]]

\* variant: the value is written as a percentage
DataValue_Scaled(m, reportConfig) ==
    [dataElement |-> Get(reportConfig.hivStagesReportMapping, m.key),
     period |-> reportConfig.period,
     orgUnit |-> reportConfig.orgUnit,
     categoryOptionCombo |-> reportConfig.catAttrCombo,
     attributeOptionCombo |-> reportConfig.catAttrCombo,
     value |-> m.match.value * 100,
     matchType |-> m.match.matchType,
     originalIndicator |-> m.key]

\* variant: the period of the default configuration is written
DataValue_DefaultPeriod(m, reportConfig) ==
    [dataElement |-> Get(reportConfig.hivStagesReportMapping, m.key),
     period |-> DefaultCoordinates.period,
     orgUnit |-> reportConfig.orgUnit,
     categoryOptionCombo |-> reportConfig.catAttrCombo,
     attributeOptionCombo |-> reportConfig.catAttrCombo,
     value |-> m.match.value,
     matchType |-> m.match.matchType,
     originalIndicator |-> m.key]

\* the entry pushed for one key of the mapping
DataValue(m, reportConfig) ==
    [dataElement |-> Get(reportConfig.hivStagesReportMapping, m.key),
     period |-> reportConfig.period,
     orgUnit |-> reportConfig.orgUnit,
     categoryOptionCombo |-> reportConfig.catAttrCombo,
     attributeOptionCombo |-> reportConfig.catAttrCombo,
     value |-> m.match.value,
     matchType |-> m.match.matchType,
     originalIndicator |-> m.key]

\* variant: an entry is pushed only for a key some strategy matched
DataValues_MatchedOnly(matches, reportConfig) ==
    LET IsMatched(m) == m.match.matchType # "default"
        matched == SelectSeq(matches, IsMatched)
    IN  [i \in 1..Len(matched) |-> DataValue(matched[i], reportConfig)]

\* Object.entries(hivStagesReportMapping).forEach(... dataValues.push({...}))
DataValues(matches, reportConfig) ==
    [i \in 1..Len(matches) |-> DataValue(matches[i], reportConfig)]

\* the counter a strategy increments, summed over the entries of the mapping
Counted(matches, counter) ==
    Cardinality({i \in 1..Len(matches) : matches[i].match.counted = counter})

\* variant: defaultValues is incremented together with noMatches
MatchingStats_DefaultsCounted(matches) ==
    [exactMatches |-> Counted(matches, "exactMatches"),
     partialMatches |-> Counted(matches, "partialMatches"),
     noMatches |-> Counted(matches, "noMatches"),
     defaultValues |-> Counted(matches, "noMatches")]

MatchingStats(matches) ==
    [exactMatches |-> Counted(matches, "exactMatches"),
     partialMatches |-> Counted(matches, "partialMatches"),
     noMatches |-> Counted(matches, "noMatches"),
     defaultValues |-> 0]

\* the payload object both versions of generatePayload build; uniqueIndicators
\* is Object.keys(indicatorValues).length, written by the sftp-dhis2 version
Payload(indicatorValues, reportConfig, dataSource, uniqueIndicators) ==
    LET matches == Matches(indicatorValues, reportConfig)
    IN  [status |-> "returned",
         dataSet |-> reportConfig.dataSet, period |-> reportConfig.period,
         orgUnit |-> reportConfig.orgUnit,
         dataValues |-> DataValues(matches, reportConfig),
         dataSource |-> dataSource,
         matchingStats |-> MatchingStats(matches),
         uniqueIndicators |-> uniqueIndicators]

\* generatePayload(processedFiles, reportConfig) of the sftp-dhis2 workflow
GeneratePayloadSftp(processedFiles, reportConfig) ==
    LET indicatorValues == SftpIndicatorValues(<<>>, processedFiles)
    IN  Payload(indicatorValues, reportConfig, "SFTP Excel", Len(ObjectKeys(indicatorValues)))

\* generatePayload(inputData, reportConfig) of the reports-data-upload
\* workflow; its payload has no uniqueIndicators (here -1)
GeneratePayloadReports(inputData, reportConfig) ==
    Payload(ReportsIndicatorValues(inputData), reportConfig,
            IF inputData.source = "sftp_excel" THEN "SFTP Excel"
            ELSE IF inputData.source = "google_sheets" THEN "Google Sheets"
            ELSE IF inputData.source = "raw_excel" THEN "Raw Excel" ELSE "unknown",
            -1)

(* ------------------- the generate-dhis2-payload jobs -------------------- *)
\* state.reportConfig || defaultReportConfig
ConfigOrDefault(config) ==
    IF config.defined
    THEN [catAttrCombo |-> config.coordinates.catAttrCombo,
          dataSet |-> config.coordinates.dataSet,
          period |-> config.coordinates.period,
          orgUnit |-> config.coordinates.orgUnit,
          hivStagesReportMapping |-> config.mapping]
    ELSE ReportConfig(DefaultMapping)

\* the rows XLSX.utils.sheet_to_json reads: columns Indicator, Value and Site,
\* an empty cell being undefined
IndicatorNames == {"TX_NEW", "tx_new", "TX", "new tx"}

CellValues == {Num(0), Num(40), Str("12")}

SiteNames == {Undefined, Str("SiteA")}

Rows == [indicator : {Str(n) : n \in IndicatorNames}, value : CellValues, site : SiteNames]

RowSeqs == UNION {[1..n -> Rows] : n \in 0..MaxRecs}

\* parseHIVIndicators: jsonData.map((row, index) => ...)
ParseHIVIndicators(rows) ==
    [i \in 1..Len(rows) |->
        [indicator |-> Or(rows[i].indicator, Str("Row_" \o NatToString(i))),
         value |-> ParseFloat(Or(rows[i].value, Num(0))),
         site |-> Undefined,
         rowIndex |-> i]]

\* parseDirectQueries: jsonData.map((row, index) => ...)
ParseDirectQueries(rows) ==
    [i \in 1..Len(rows) |->
        [indicator |-> Or(rows[i].indicator, Str("Indicator_" \o NatToString(i))),
         value |-> ParseFloat(Or(rows[i].value, Num(0))),
         site |-> Or(rows[i].site, Str("Site_" \o NatToString(i))),
         rowIndex |-> i]]

\* parseExcelData: the parser is chosen by the file name; the entry of
\* state.processedFiles the process job returns for the file
ProcessedFile(fileName, rows) ==
    [fileName |-> fileName,
     excelData |->
        IF Includes(fileName, "HIV") \/ Includes(fileName, "Indicators")
        THEN [type |-> "hiv_indicators", indicators |-> ParseHIVIndicators(rows),
              queries |-> <<>>]
        ELSE [type |-> "direct_queries", indicators |-> <<>>,
              queries |-> ParseDirectQueries(rows)]]

HasSite(row) == Truthy(row.site)

HasNoSite(row) == ~Truthy(row.site)

\* a file of the raw Excel format: indicators, queries and sites
RawFile(fileName, rows) ==
    [fileName |-> fileName,
     indicators |-> ParseHIVIndicators(SelectSeq(rows, HasNoSite)),
     queries |-> ParseDirectQueries(SelectSeq(rows, HasSite)),
     sites |-> <<>>]

\* what the job finds in its state, for each format it reads, the sheet
\* holding one of rowSeqs
JobInputsOver(rowSeqs) ==
    {[source |-> "processed_files", processedFiles |-> <<>>, rows |-> <<>>]}
    \cup {[source |-> "processed_files",
           processedFiles |-> <<ProcessedFile(fileName, rows)>>, rows |-> rows] :
             fileName \in {"HIV Indicators.xlsx", "DQ.xlsx"}, rows \in rowSeqs}
    \cup {[source |-> "sftp_excel", sheets |-> <<rows>>, rows |-> rows] : rows \in rowSeqs}
    \cup {[source |-> "google_sheets", processedData |-> rows, rows |-> rows] :
             rows \in rowSeqs}
    \cup {[source |-> "raw_excel", processedFiles |-> <<RawFile("data.xlsx", rows)>>,
           rows |-> rows] : rows \in rowSeqs}

JobInputs == JobInputsOver(RowSeqs)

Vocabulary ==
    {[key |-> "TX_NEW", value |-> "dwEq7wi6nXV"],
     [key |-> "TX_CURR", value |-> "ZiOVcrSjSYe"],
     [key |-> "HTS_TST", value |-> "FTRrcoaog83"]}

\* the mappings a reportConfig may carry: objects with distinct keys
MappingsOver(vocabulary) ==
    {m \in UNION {[1..n -> vocabulary] : n \in 0..MaxVocab} :
        \A i, j \in 1..Len(m) : i # j => m[i].key # m[j].key}

Mappings == MappingsOver(Vocabulary)

JobConfigsOver(mappings) ==
    {[defined |-> FALSE, mapping |-> <<>>]}
    \cup {[defined |-> TRUE, mapping |-> m, coordinates |-> DefaultCoordinates] :
             m \in mappings}

JobConfigs == JobConfigsOver(Mappings)

InitMatch ==
    /\ now = 0
    /\ dir = [f \in Files |-> [size |-> 100, modifiedTime |-> 1]]
    /\ store = MissingTracking
    /\ pc = [r \in Runs |-> "idle"]
    /\ state = [r \in Runs |-> InitialState(MissingTracking, NoData)]
    /\ starts = 0
    /\ edits = 0
    /\ uploaded = {}
    /\ committed = {}
    /\ fresh = [r \in Runs |-> TRUE]
    /\ jobInput \in JobInputs
    /\ jobConfig \in JobConfigs
    /\ jobPayload = NotRun
    /\ jobCalls = 0
    /\ excel = NoExcel

\* the job of the sftp-dhis2 workflow: throws without processed files; a run
\* that is retried executes the job again on the same state
GenerateDHIS2PayloadSftp ==
    /\ jobCalls < MaxCalls
    /\ jobCalls' = jobCalls + 1
    /\ jobInput.source = "processed_files"
    /\ jobPayload' = IF jobInput.processedFiles = <<>> THEN Thrown
                     ELSE GeneratePayloadSftp(jobInput.processedFiles,
                                              ConfigOrDefault(jobConfig))
    /\ UNCHANGED <<pipelineVars, jobInput, jobConfig, excel>>

\* the job of the reports-data-upload workflow: throws without a reportConfig
GenerateDHIS2PayloadReports ==
    /\ jobCalls < MaxCalls
    /\ jobCalls' = jobCalls + 1
    /\ jobInput.source \in {"sftp_excel", "google_sheets", "raw_excel"}
    /\ jobPayload' = IF ~jobConfig.defined THEN Thrown
                     ELSE GeneratePayloadReports(jobInput, ConfigOrDefault(jobConfig))
    /\ UNCHANGED <<pipelineVars, jobInput, jobConfig, excel>>

NextMatch ==
    \/ GenerateDHIS2PayloadSftp
    \/ GenerateDHIS2PayloadReports

SpecMatch == InitMatch /\ [][NextMatch]_vars

(* ---- the same jobs on sheets with blank, numeric and multi-word names ---- *)
\* indicator names as facilities type them: a blank cell holding a space, a
\* number, an abbreviation, and several wordings of one indicator
TypedNames == {" ", "1", "TX", "Tx New Patients", "new tx", "tx-new", "New a b c"}

TypedRows == [indicator : {Str(n) : n \in TypedNames}, value : {Num(40), Num(7)},
              site : {Undefined}]

TypedRowSeqs == UNION {[1..n -> TypedRows] : n \in 0..MaxRecs}

\* a mapping configured with a key that ends in a digit
TypedVocabulary ==
    {[key |-> "TX_NEW", value |-> "dwEq7wi6nXV"],
     [key |-> "TX_1", value |-> "a1B2c3D4e5F"]}

InitNames ==
    /\ now = 0
    /\ dir = [f \in Files |-> [size |-> 100, modifiedTime |-> 1]]
    /\ store = MissingTracking
    /\ pc = [r \in Runs |-> "idle"]
    /\ state = [r \in Runs |-> InitialState(MissingTracking, NoData)]
    /\ starts = 0
    /\ edits = 0
    /\ uploaded = {}
    /\ committed = {}
    /\ fresh = [r \in Runs |-> TRUE]
    /\ jobInput \in JobInputsOver(TypedRowSeqs)
    /\ jobConfig \in JobConfigsOver(MappingsOver(TypedVocabulary))
    /\ jobPayload = NotRun
    /\ jobCalls = 0
    /\ excel = NoExcel

SpecNames == InitNames /\ [][NextMatch]_vars

(* ---- process-excel-data.js, reports-data-upload workflow: the retry loop -- *)
\* const maxRetries = 3
maxRetries == 3

\* the most files state.sftpData.downloadedFiles holds
MaxFiles == 3

\* the files of a download: distinct names of the SFTP directory
DownloadedNames == {"DHIS2_HIV Indicators.xlsx", "Direct Queries.xlsx", "Q2FY25_DQ.xlsx"}

DownloadedFiles ==
    {files \in UNION {[1..n -> DownloadedNames] : n \in 0..MaxFiles} :
        \A a, b \in 1..Len(files) : a # b => files[a] # files[b]}

\* the job at the start of forEach over files: nothing processed, no errors;
\* parses[i] counts the calls of parseExcelData for file i
RetryStart(files) ==
    [stage |-> "loop", files |-> files, i |-> 1, retryCount |-> 0, processed |-> FALSE,
     processedData |-> <<>>, errors |-> <<>>, parses |-> [k \in 1..Len(files) |-> 0]]

\* variant: every failed attempt is recorded in errors
AfterAttempt_ErrorEachTime(x, ok) ==
    IF ok
    THEN [x EXCEPT !.parses[x.i] = @ + 1,
                   !.processedData = Append(@, [fileName |-> x.files[x.i]]),
                   !.processed = TRUE]
    ELSE [x EXCEPT !.parses[x.i] = @ + 1,
                   !.retryCount = @ + 1,
                   !.errors = Append(@, [fileName |-> x.files[x.i],
                                         attempts |-> x.retryCount + 1])]

\* one iteration of while (!processed && retryCount < maxRetries): the try
\* block ran to its end (ok) or parseExcelData threw
AfterAttempt(x, ok) ==
    IF ok
    THEN [x EXCEPT !.parses[x.i] = @ + 1,
                   !.processedData = Append(@, [fileName |-> x.files[x.i]]),
                   !.processed = TRUE]
    ELSE [x EXCEPT !.parses[x.i] = @ + 1,
                   !.retryCount = @ + 1,
                   !.errors = IF x.retryCount + 1 >= maxRetries
                              THEN Append(@, [fileName |-> x.files[x.i],
                                              attempts |-> x.retryCount + 1])
                              ELSE @]

InitRetry ==
    /\ now = 0
    /\ dir = [f \in Files |-> [size |-> 100, modifiedTime |-> 1]]
    /\ store = MissingTracking
    /\ pc = [r \in Runs |-> "idle"]
    /\ state = [r \in Runs |-> InitialState(MissingTracking, NoData)]
    /\ starts = 0
    /\ edits = 0
    /\ uploaded = {}
    /\ committed = {}
    /\ fresh = [r \in Runs |-> TRUE]
    /\ jobInput = NoInput
    /\ jobConfig = <<>>
    /\ jobPayload = NotRun
    /\ jobCalls = 0
    /\ excel \in {RetryStart(files) : files \in DownloadedFiles}

\* the body of the while loop, once
ParseAttempt(ok) ==
    /\ excel.stage = "loop"
    /\ excel.i <= Len(excel.files)
    /\ ~excel.processed /\ excel.retryCount < maxRetries
    /\ excel' = AfterAttempt(excel, ok)
    /\ UNCHANGED <<pipelineVars, jobInput, jobConfig, jobPayload, jobCalls>>

\* the while condition is false: forEach moves to the next file
NextFile ==
    /\ excel.stage = "loop"
    /\ excel.i <= Len(excel.files)
    /\ ~(~excel.processed /\ excel.retryCount < maxRetries)
    /\ excel' = [excel EXCEPT !.i = @ + 1, !.retryCount = 0, !.processed = FALSE]
    /\ UNCHANGED <<pipelineVars, jobInput, jobConfig, jobPayload, jobCalls>>

\* after forEach: state.excelData is stored and the job returns
StoreExcelData ==
    /\ excel.stage = "loop"
    /\ excel.i > Len(excel.files)
    /\ excel' = [excel EXCEPT !.stage = "done"]
    /\ UNCHANGED <<pipelineVars, jobInput, jobConfig, jobPayload, jobCalls>>

NextRetry ==
    \/ \E ok \in BOOLEAN : ParseAttempt(ok)
    \/ NextFile
    \/ StoreExcelData

SpecRetry == InitRetry /\ [][NextRetry]_vars

\* the job is executed to its end: a step that can be taken is taken
SpecRetryFair == SpecRetry /\ WF_vars(NextRetry)

(* ---- the same jobs with a report configuration of another period ---- *)
\* the coordinates a reportConfig may carry: those of defaultReportConfig or
\* those of another data set, period and organisation unit
Coordinates ==
    {DefaultCoordinates,
     [catAttrCombo |-> "bjDvmb4bfuf", dataSet |-> "pBOMPrpg1QX", period |-> "202507",
      orgUnit |-> "O6uvpzGd5pu"]}

\* rows that carry a period and an organisation unit of their own
DatedRows ==
    [indicator : {Str("TX_NEW")}, value : {Num(40)}, site : {Undefined, Str("SiteA")},
     period : {Str("202501"), Str("202507")}, orgUnit : {Str("MW_SITEA")}]

InitCoords ==
    /\ now = 0
    /\ dir = [f \in Files |-> [size |-> 100, modifiedTime |-> 1]]
    /\ store = MissingTracking
    /\ pc = [r \in Runs |-> "idle"]
    /\ state = [r \in Runs |-> InitialState(MissingTracking, NoData)]
    /\ starts = 0
    /\ edits = 0
    /\ uploaded = {}
    /\ committed = {}
    /\ fresh = [r \in Runs |-> TRUE]
    /\ jobInput \in JobInputsOver(UNION {[1..n -> DatedRows] : n \in 0..MaxRecs})
    /\ jobConfig \in {[defined |-> FALSE, mapping |-> <<>>]}
                     \cup {[defined |-> TRUE, mapping |-> m, coordinates |-> c] :
                             m \in Mappings, c \in Coordinates}
    /\ jobPayload = NotRun
    /\ jobCalls = 0
    /\ excel = NoExcel

SpecCoords == InitCoords /\ [][NextMatch]_vars

(* ---- process-excel-data.js, reports-data-upload workflow: the parsers ---- *)
\* the loop bound of the header search: Math.min(10, rawData.length)
HeaderScanRows == 10

\* an unanchored alternation /a|b|c/i tested on s
AnyIncluded(s, words) == \E w \in words : Includes(ToLowerCase(s), w)

\* row.some(cell => cell && typeof cell === 'string' && one of the three
\* patterns of parseDirectQueries matches)
HasCommonHeaders(row) ==
    \E c \in 1..Len(row) :
        /\ row[c].t = "string" /\ row[c].s # ""
        /\ AnyIncluded(row[c].s,
              {"facility", "site", "query", "indicator", "value", "result", "count", "total",
               "period", "month", "quarter", "year", "date",
               "org", "unit", "district", "region"})

RECURSIVE HeaderScan_AllRows(_, _)
\* variant: the search goes through every row of the sheet
HeaderScan_AllRows(rawData, i) ==
    IF i >= Len(rawData) THEN 0
    ELSE IF HasCommonHeaders(rawData[i + 1]) THEN i
    ELSE HeaderScan_AllRows(rawData, i + 1)

RECURSIVE HeaderScan(_, _)
\* for (let i = 0; i < Math.min(10, rawData.length); i++): headerRowIndex,
\* 0 unless a row breaks the loop
HeaderScan(rawData, i) ==
    IF i >= HeaderScanRows \/ i >= Len(rawData) THEN 0
    ELSE IF HasCommonHeaders(rawData[i + 1]) THEN i
    ELSE HeaderScan(rawData, i + 1)

\* the anchored patterns of the else-if chain, in its order: the words of
\* /^(a|b|c.*d)$/, an alternative c.*d as the pair <<c, d>>
ExactPatterns ==
    << [field |-> "site", words |-> {"site", "facility", "clinic", "hospital"},
        wild |-> {<<"health", "facility">>}],
       [field |-> "indicator", words |-> {"query", "indicator", "measure", "metric"},
        wild |-> {<<"data", "element">>}],
       [field |-> "value",
        words |-> {"value", "result", "count", "total", "number", "amount"}, wild |-> {}],
       [field |-> "period",
        words |-> {"period", "month", "quarter", "year", "date", "time"}, wild |-> {}],
       [field |-> "orgUnit", words |-> {"district", "region", "area"},
        wild |-> {<<"org", "unit">>}],
       [field |-> "target", words |-> {"target", "goal", "expected"}, wild |-> {}],
       [field |-> "comment", words |-> {"comment", "note", "remark", "description"},
        wild |-> {}] >>

\* the positions in ExactPatterns of the patterns that match headerStr
ExactHits(headerStr) ==
    {p \in 1..Len(ExactPatterns) :
        \/ headerStr \in ExactPatterns[p].words
        \/ \E w \in ExactPatterns[p].wild :
              /\ Len(headerStr) >= Len(w[1]) + Len(w[2])
              /\ SubSeq(headerStr, 1, Len(w[1])) = w[1]
              /\ SubSeq(headerStr, Len(headerStr) - Len(w[2]) + 1, Len(headerStr)) = w[2]}

\* the flexible patterns, tried after the chain for a field that is not mapped
FlexiblePatterns ==
    << [field |-> "site", words |-> {"facility", "site", "clinic"}],
       [field |-> "indicator", words |-> {"indicator", "query", "measure"}],
       [field |-> "value", words |-> {"value", "count", "total", "result"}] >>

RECURSIVE FlexibleFrom(_, _, _, _)
\* if (!headerMap.f && /.../i.test(headerStr)) headerMap.f = index, for the
\* flexible patterns from position p on; !headerMap.f holds for a field that
\* is not mapped and for one mapped to column 0
FlexibleFrom(headerMap, headerStr, index, p) ==
    IF p > Len(FlexiblePatterns) THEN headerMap
    ELSE LET f == FlexiblePatterns[p].field
             free == f \notin DOMAIN headerMap \/ headerMap[f] = 0
         IN  FlexibleFrom(
                 IF free /\ AnyIncluded(headerStr, FlexiblePatterns[p].words)
                 THEN Put(headerMap, f, index) ELSE headerMap,
                 headerStr, index, p + 1)

\* the body of headers.forEach((header, index) => ...)
MapHeader(headerMap, header, index) ==
    IF ~Truthy(header) THEN headerMap
    ELSE LET headerStr == Trim(ToLowerCase(JsString(header)))
             hits == ExactHits(headerStr)
             first == CHOOSE p \in hits : \A q \in hits : p <= q
         IN  FlexibleFrom(
                 IF hits = {} THEN headerMap
                 ELSE Put(headerMap, ExactPatterns[first].field, index),
                 headerStr, index, 1)

RECURSIVE HeaderMapFrom(_, _, _)
\* headers.forEach from column index on (columns count from 0)
HeaderMapFrom(headerMap, headers, index) ==
    IF index >= Len(headers) THEN headerMap
    ELSE HeaderMapFrom(MapHeader(headerMap, headers[index + 1], index), headers, index + 1)

\* row[headerMap.f]: undefined for a field that is not mapped and for a column
\* the row does not have
CellOf(row, headerMap, f) ==
    IF f \in DOMAIN headerMap /\ headerMap[f] + 1 \in DOMAIN row
    THEN row[headerMap[f] + 1] ELSE Undefined

\* the callback of dataRows.map for the row at position index (from 0): the
\* record, or found FALSE for null
QueryOf(row, headerMap, index) ==
    LET At(c) == IF c \in DOMAIN row THEN row[c] ELSE Undefined
        site == Or(Or(CellOf(row, headerMap, "site"), At(1)),
                   Str("Site_" \o NatToString(index + 1)))
        indicator == Or(Or(CellOf(row, headerMap, "indicator"), At(2)),
                        Str("Query_" \o NatToString(index + 1)))
        value == ParseFloat(Or(Or(CellOf(row, headerMap, "value"), At(3)), Num(0)))
    IN  IF row = <<>> \/ Trim(JsString(site)) = "" \/ Trim(JsString(indicator)) = ""
        THEN [found |-> FALSE]
        ELSE [found |-> TRUE,
              site |-> Trim(JsString(site)),
              indicator |-> Trim(JsString(indicator)),
              value |-> IF value.t = "NaN" THEN Num(0) ELSE value,
              rowIndex |-> index + 1]

IsFound(q) == q.found

\* parseDirectQueries(workbook) on the rows of the first sheet, with what it
\* logs: the header row, the header mapping, and the rows it treats as data
ParseDirectQueriesRaw(rawData) ==
    IF rawData = <<>>
    THEN [headerRowIndex |-> 0, headerMap |-> EmptyMap, dataRows |-> <<>>, queries |-> <<>>]
    ELSE LET headerRowIndex == HeaderScan(rawData, 0)
             headerMap == HeaderMapFrom(EmptyMap, rawData[headerRowIndex + 1], 0)
             dataRows == SubSeq(rawData, headerRowIndex + 2, Len(rawData))
         IN  [headerRowIndex |-> headerRowIndex,
              headerMap |-> headerMap,
              dataRows |-> dataRows,
              queries |-> SelectSeq([n \in 1..Len(dataRows) |->
                                        QueryOf(dataRows[n], headerMap, n - 1)], IsFound)]

\* the most title rows a sheet has above its header row
MaxTitleRows == 11

\* the most rows a sheet has below its header row
MaxDataRows == 2

\* a title row above the table
TitleRow == <<Str("Malawi MoH")>>

\* header rows: the plain one, one whose first and last columns both name the
\* site, one with two exact site columns, and a sheet without a header row
HeaderRows ==
    { <<Str("Site"), Str("Indicator"), Str("Value")>>,
      <<Str("Facility Name"), Str("Indicator"), Str("Value"), Str("Site Code")>>,
      <<Str("Site"), Str("Indicator"), Str("Value"), Str("Facility")>>,
      <<Str("Lilongwe"), Str("TX_NEW"), Num(5)>> }

\* rows below the header: complete, with an empty or blank indicator or site
\* cell, with a value that is not a number, with a fourth column, and empty
DataRows ==
    { <<Str("Lilongwe"), Str("TX_NEW"), Num(5)>>,
      <<Str("Lilongwe"), Undefined, Num(5)>>,
      <<Str("Lilongwe"), Str(" "), Num(5)>>,
      <<Str("  "), Str("TX_NEW"), Num(5)>>,
      <<Str("Lilongwe"), Str("TX_NEW"), Str("n/a")>>,
      <<Str("Lilongwe"), Str("TX_NEW"), Num(5), Str("Zomba")>>,
      <<>> }

\* the rows of a sheet, as sheet_to_json(worksheet, { header: 1 }) returns them
RawSheets ==
    {<<>>}
    \cup {[n \in 1..titles |-> TitleRow] \o <<header>> \o rows :
             titles \in 0..MaxTitleRows, header \in HeaderRows,
             rows \in UNION {[1..n -> DataRows] : n \in 0..MaxDataRows}}

\* the rows of an HIV Indicators sheet, as sheet_to_json(worksheet) returns
\* them: the name cell empty, blank or filled, the value cell empty, a number
\* or a text
IndicatorSheets ==
    UNION {[1..n -> [indicator : {Undefined, Str(" "), Str("TX_NEW")},
                     value : {Undefined, Num(5), Str("n/a")},
                     site : {Undefined}]] : n \in 0..MaxDataRows}

InitParse ==
    /\ now = 0
    /\ dir = [f \in Files |-> [size |-> 100, modifiedTime |-> 1]]
    /\ store = MissingTracking
    /\ pc = [r \in Runs |-> "idle"]
    /\ state = [r \in Runs |-> InitialState(MissingTracking, NoData)]
    /\ starts = 0
    /\ edits = 0
    /\ uploaded = {}
    /\ committed = {}
    /\ fresh = [r \in Runs |-> TRUE]
    /\ jobInput = NoInput
    /\ jobConfig = <<>>
    /\ jobPayload = NotRun
    /\ jobCalls = 0
    /\ \/ excel \in {[stage |-> "read", type |-> "direct_queries", rawData |-> sheet] :
                        sheet \in RawSheets}
       \/ excel \in {[stage |-> "read", type |-> "hiv_indicators", rawData |-> sheet] :
                        sheet \in IndicatorSheets}

\* parseExcelData on a 'Direct Queries' file
ParseDirectQueriesFile ==
    /\ excel.stage = "read" /\ excel.type = "direct_queries"
    /\ excel' = [stage |-> "parsed", type |-> excel.type, rawData |-> excel.rawData,
                 parsed |-> ParseDirectQueriesRaw(excel.rawData)]
    /\ UNCHANGED <<pipelineVars, jobInput, jobConfig, jobPayload, jobCalls>>

\* parseExcelData on a 'DHIS2_HIV Indicators' file
ParseHIVIndicatorsFile ==
    /\ excel.stage = "read" /\ excel.type = "hiv_indicators"
    /\ excel' = [stage |-> "parsed", type |-> excel.type, rawData |-> excel.rawData,
                 parsed |-> [indicators |-> ParseHIVIndicators(excel.rawData)]]
    /\ UNCHANGED <<pipelineVars, jobInput, jobConfig, jobPayload, jobCalls>>

NextParse ==
    \/ ParseDirectQueriesFile
    \/ ParseHIVIndicatorsFile

SpecParse == InitParse /\ [][NextParse]_vars

(* ------------------------------ claims --------------------------------- *)
Names(files) == {files[i].name : i \in 1..Len(files)}

\* the run has executed CheckSFTPFiles and state.fileTracking is still what it read
Checked(r) ==
    /\ pc[r] \in {"DownloadSFTPFiles", "ProcessExcelData", "GenerateDHIS2Payload",
                  "UploadToDHIS2", "UpdateFileTracking", "stopped", "failed"}
    /\ state[r].currentFileList # <<>>

\* C1 (as claimed): no file is recorded in the persisted fileTracking with its
\* current size and modifiedTime unless that version was parsed and uploaded, so
\* a file a run did not process is classified new or changed again
C1_NeverSilentLoss ==
    \A f \in Files :
        LET known == OrEmpty(store)
        IN  (/\ f \in DOMAIN known
             /\ known[f].size = dir[f].size
             /\ known[f].modifiedTime = dir[f].modifiedTime)
            => <<f, dir[f].size, dir[f].modifiedTime>> \in uploaded

\* C2: state.fileTracking of a run in progress and the persisted map change only
\* in an UpdateFileTracking step of a run whose uploadCompleted is true; a run
\* that fails or stops leaves its fileTracking as it was
C2_CommitOnlyAfterUpload ==
    [][ /\ store' # store =>
              \E r \in Runs : /\ pc[r] = "UpdateFileTracking"
                              /\ pc'[r] = "done"
                              /\ state[r].uploadCompleted
        /\ \A r \in Runs :
              (pc[r] \in Jobs /\ state'[r].fileTracking # state[r].fileTracking)
                  => (pc[r] = "UpdateFileTracking" /\ state[r].uploadCompleted)
        /\ \A r \in Runs :
              (pc[r] \in Jobs /\ pc'[r] \in {"failed", "stopped"})
                  => (state'[r].fileTracking = state[r].fileTracking /\ store' = store)
      ]_vars

\* C2 witness: a run failed at UploadToDHIS2, after its files were parsed and the
\* payload generated, and nothing was ever persisted
C2_Witness ==
    \E r \in Runs : /\ pc[r] = "failed"
                    /\ state[r].payload
                    /\ state[r].processedFiles # <<>>
                    /\ ~state[r].fileTracking.defined
                    /\ ~store.defined

\* C3 (as claimed): a run that read the persisted map after the last commit
\* leaves every file out of newFiles that it lists with a size and modifiedTime
\* under which the file was committed as processed
C3_CommittedNeverNewAgain ==
    \A r \in Runs :
        (fresh[r] /\ Checked(r)) =>
            \A i \in 1..Len(state[r].currentFileList) :
                LET f == state[r].currentFileList[i]
                IN  <<f.name, f.size, f.modifiedTime>> \in committed
                        => f.name \notin Names(state[r].newFiles)

\* C4: after CheckSFTPFiles, newFiles holds exactly the listed supported files
\* that have no tracking entry or whose stored size or modifiedTime differs
C4_NewIffAbsentOrChanged ==
    \A r \in Runs :
        Checked(r) =>
            LET known == OrEmpty(state[r].fileTracking)
                current == state[r].currentFileList
            IN  /\ \A i \in 1..Len(state[r].newFiles) :
                       /\ state[r].newFiles[i] \in {current[j] : j \in 1..Len(current)}
                       /\ Extension(state[r].newFiles[i].name) \in {".xlsx", ".xls"}
                /\ \A j \in 1..Len(current) :
                       (current[j].name \in Names(state[r].newFiles))
                       <=> \/ current[j].name \notin DOMAIN known
                           \/ known[current[j].name].size # current[j].size
                           \/ known[current[j].name].modifiedTime # current[j].modifiedTime

\* C4 witness: a known file listed with size 150 instead of the stored 100 is in
\* newFiles while a known file listed with equal size and modifiedTime is not
C4_Witness ==
    \E r \in Runs :
        /\ Checked(r)
        /\ state[r].fileTracking.defined
        /\ \E i, j \in 1..Len(state[r].currentFileList) :
              LET known == state[r].fileTracking.entries
                  f == state[r].currentFileList[i]
                  g == state[r].currentFileList[j]
              IN  /\ f.name \in DOMAIN known /\ g.name \in DOMAIN known
                  /\ known[f.name].size = 100 /\ f.size = 150
                  /\ known[f.name].modifiedTime = f.modifiedTime
                  /\ f.name \in Names(state[r].newFiles)
                  /\ known[g.name].size = g.size
                  /\ known[g.name].modifiedTime = g.modifiedTime
                  /\ g.name \notin Names(state[r].newFiles)

\* C5: CheckSFTPFiles changes neither state.fileTracking nor the persisted map,
\* and classifying the same listing again against the tracking it leaves yields
\* the same newFiles
C5_ClassificationIdempotent ==
    [][ \A r \in Runs :
            (pc[r] = "CheckSFTPFiles" /\ pc'[r] \in {"DownloadSFTPFiles", "stopped"})
                => /\ state'[r].fileTracking = state[r].fileTracking
                   /\ store' = store
                   /\ NewFiles(state'[r].fileTracking, Listing(dir)) = state'[r].newFiles
                   /\ NewFiles(store', Listing(dir')) = NewFiles(store, Listing(dir))
      ]_vars

\* C5 witness: a check has found new files while other files are unchanged
C5_Witness ==
    \E r \in Runs : /\ pc[r] = "DownloadSFTPFiles"
                    /\ state[r].newFiles # <<>>
                    /\ Len(state[r].newFiles) < Len(state[r].currentFileList)

\* C6: after DownloadSFTPFiles every file of filesToDownload is in exactly one of
\* downloadedFiles and failedDownloads, and after ProcessExcelData every
\* downloaded file is in exactly one of processedFiles and processingErrors
C6_PerFileIsolation ==
    \A r \in Runs :
        /\ pc[r] \in {"ProcessExcelData", "GenerateDHIS2Payload", "UploadToDHIS2",
                      "UpdateFileTracking", "done"}
              => /\ \A n \in Names(state[r].filesToDownload) :
                        (n \in Names(state[r].downloadedFiles))
                            # (n \in Names(state[r].failedDownloads))
                 /\ Len(state[r].downloadedFiles) + Len(state[r].failedDownloads)
                        = Len(state[r].filesToDownload)
        /\ pc[r] \in {"GenerateDHIS2Payload", "UploadToDHIS2", "UpdateFileTracking", "done"}
              => /\ \A n \in Names(state[r].downloadedFiles) :
                        (n \in Names(state[r].processedFiles))
                            # (n \in {state[r].processingErrors[i].fileName :
                                         i \in 1..Len(state[r].processingErrors)})
                 /\ Len(state[r].processedFiles) + Len(state[r].processingErrors)
                        = Len(state[r].downloadedFiles)

\* C6 witness: the first downloaded file failed to parse and a later one was
\* parsed all the same
C6_Witness ==
    \E r \in Runs :
        /\ pc[r] = "GenerateDHIS2Payload"
        /\ Len(state[r].downloadedFiles) = 2
        /\ state[r].processingErrors # <<>>
        /\ state[r].processingErrors[1].fileName = state[r].downloadedFiles[1].name
        /\ Names(state[r].processedFiles) = {state[r].downloadedFiles[2].name}

\* C7 (as claimed): when two runs that processed different files have both
\* finished UpdateFileTracking, the persisted map has the entries of both
C7_ConcurrentCommitsKept ==
    \A r1, r2 \in Runs :
        (/\ r1 # r2
         /\ pc[r1] = "done" /\ pc[r2] = "done"
         /\ state[r1].completedAt = now /\ state[r2].completedAt = now
         /\ Names(state[r1].processedFiles) \cap Names(state[r2].processedFiles) = {})
        => (Names(state[r1].processedFiles) \cup Names(state[r2].processedFiles))
               \subseteq DOMAIN OrEmpty(store)

UsedMapping == IF jobConfig.defined THEN jobConfig.mapping ELSE DefaultMapping

\* C9: whenever a generate-dhis2-payload job returns a payload, dataValues has
\* exactly one entry per key of the mapping, in the order of the keys, whatever
\* the number of source rows (none included)
C9_OneDataValuePerKey ==
    jobPayload.status = "returned" =>
        /\ Len(jobPayload.dataValues) = Len(UsedMapping)
        /\ \A i \in 1..Len(UsedMapping) :
              /\ jobPayload.dataValues[i].originalIndicator = ObjectKeys(UsedMapping)[i]
              /\ jobPayload.dataValues[i].dataElement
                    = Get(UsedMapping, ObjectKeys(UsedMapping)[i])

\* C9 witness: a payload was returned for no source rows at all and a mapping
\* of two keys
C9_Witness ==
    /\ jobPayload.status = "returned"
    /\ jobInput.rows = <<>>
    /\ Len(jobConfig.mapping) = 2
    /\ Len(jobPayload.dataValues) = 2

\* the number a row's Value cell stands for
RowValue(row) == ParseFloatOrZero(row.value)

\* C10 (as claimed): when the rows named exactly like a key of the mapping all
\* carry the same value, the data value of that key has matchType 'exact' and
\* that value, in every format, with or without a site, and for the value 0
C10_ExactNameGivesExactValue ==
    jobPayload.status = "returned" =>
        \A i \in 1..Len(jobPayload.dataValues) : \A j \in 1..Len(jobInput.rows) :
            (/\ jobInput.rows[j].indicator = Str(jobPayload.dataValues[i].originalIndicator)
             /\ \A k \in 1..Len(jobInput.rows) :
                    jobInput.rows[k].indicator = jobInput.rows[j].indicator
                        => RowValue(jobInput.rows[k]) = RowValue(jobInput.rows[j]))
            => /\ jobPayload.dataValues[i].matchType = "exact"
               /\ jobPayload.dataValues[i].value = RowValue(jobInput.rows[j])

\* indicatorValues as the job under study builds it from its input
ObservedIndex ==
    IF jobInput.source = "processed_files"
    THEN SftpIndicatorValues(<<>>, jobInput.processedFiles)
    ELSE ReportsIndicatorValues(jobInput)

\* the records of the input in the order generatePayload processes them:
\* file by file, indicators before queries
ProcessedRecords ==
    IF jobInput.source = "processed_files"
    THEN IF jobInput.processedFiles = <<>> THEN <<>>
         ELSE jobInput.processedFiles[1].excelData.indicators
              \o jobInput.processedFiles[1].excelData.queries
    ELSE IF jobInput.source = "raw_excel"
    THEN jobInput.processedFiles[1].indicators \o jobInput.processedFiles[1].queries
    ELSE jobInput.rows

\* the key a record is indexed under: the Google Sheets format has no site
RecordKey(rec) ==
    IF jobInput.source # "google_sheets" /\ Truthy(rec.site)
    THEN Trim(JsString(rec.site) \o "_" \o JsString(rec.indicator))
    ELSE Trim(JsString(rec.indicator))

\* the position of the last record indexed under key
LastRecordAt(key) ==
    CHOOSE i \in 1..Len(ProcessedRecords) :
        /\ RecordKey(ProcessedRecords[i]) = key
        /\ \A j \in 1..Len(ProcessedRecords) :
              RecordKey(ProcessedRecords[j]) = key => j <= i

\* C11 (as claimed): once a payload is returned, every key of indicatorValues
\* holds the value of the last record, in processing order, that has this key
C11_LastRecordWins ==
    jobPayload.status = "returned" =>
        \A n \in 1..Len(ObservedIndex) :
            ObservedIndex[n].value
                = ParseFloatOrZero(ProcessedRecords[LastRecordAt(ObservedIndex[n].key)].value)

\* no key of indicatorValues is a candidate of any strategy for the mapping key
\* k: none is equal, equal ignoring case, contains k or is contained in it, or
\* has a token-overlap score above 0.5
NoCandidate(k) ==
    \A n \in 1..Len(ObservedIndex) :
        LET key == ObservedIndex[n].key
        IN  /\ key # k
            /\ ToLowerCase(key) # ToLowerCase(k)
            /\ ~Includes(ToLowerCase(key), ToLowerCase(k))
            /\ ~Includes(ToLowerCase(k), ToLowerCase(key))
            /\ 2 * SumOver(Words(k), Words(key), 1) <= MaxLength(Words(k), Words(key))

\* C12: in a returned payload, a mapping key without a candidate for any
\* strategy has its data value, with value 0 and matchType 'default'
C12_NoCandidateGivesDefault ==
    jobPayload.status = "returned" =>
        \A i \in 1..Len(UsedMapping) :
            NoCandidate(ObjectKeys(UsedMapping)[i]) =>
                /\ i <= Len(jobPayload.dataValues)
                /\ jobPayload.dataValues[i].originalIndicator = ObjectKeys(UsedMapping)[i]
                /\ jobPayload.dataValues[i].value = 0
                /\ jobPayload.dataValues[i].matchType = "default"

\* C12 witness: records were indexed, one mapping key has no candidate among
\* them and another key was matched
C12_Witness ==
    /\ jobPayload.status = "returned"
    /\ ObservedIndex # <<>>
    /\ \E i, j \in 1..Len(jobPayload.dataValues) :
          /\ NoCandidate(jobPayload.dataValues[i].originalIndicator)
          /\ jobPayload.dataValues[i].matchType = "default"
          /\ jobPayload.dataValues[j].matchType = "exact"

\* the number of data values of the payload whose matchType is in types
TallyOf(types) ==
    Cardinality({i \in 1..Len(jobPayload.dataValues) :
                    jobPayload.dataValues[i].matchType \in types})

\* C13 (as claimed): the statistics are a tally of matchType: every count is
\* the number of data values of its own match type
C13_StatsTallyPerMatchType ==
    jobPayload.status = "returned" =>
        /\ jobPayload.matchingStats.exactMatches = TallyOf({"exact"})
        /\ jobPayload.matchingStats.partialMatches = TallyOf({"partial"})
        /\ jobPayload.matchingStats.defaultValues = TallyOf({"default"})

\* C13 (amended): exactMatches counts 'exact' and 'exact_case_insensitive',
\* partialMatches counts 'partial' and 'fuzzy', noMatches counts 'default',
\* defaultValues stays 0, and the counts add up to the number of mapping keys
C13_StatsTallyInGroups ==
    jobPayload.status = "returned" =>
        /\ jobPayload.matchingStats.exactMatches
              = TallyOf({"exact", "exact_case_insensitive"})
        /\ jobPayload.matchingStats.partialMatches = TallyOf({"partial", "fuzzy"})
        /\ jobPayload.matchingStats.noMatches = TallyOf({"default"})
        /\ jobPayload.matchingStats.defaultValues = 0
        /\ jobPayload.matchingStats.exactMatches + jobPayload.matchingStats.partialMatches
              + jobPayload.matchingStats.noMatches + jobPayload.matchingStats.defaultValues
              = Len(UsedMapping)

\* C13 witness: a payload with a case-insensitive match, a fuzzy match and a
\* default, all counted
C13_Witness ==
    /\ jobPayload.status = "returned"
    /\ TallyOf({"exact_case_insensitive"}) > 0
    /\ TallyOf({"fuzzy"}) > 0
    /\ TallyOf({"default"}) > 0
    /\ jobPayload.matchingStats.partialMatches > 0
    /\ jobPayload.matchingStats.noMatches > 0

Commits(r) ==
    /\ pc[r] = "UpdateFileTracking"
    /\ pc'[r] = "done"
    /\ state[r].uploadCompleted

\* C15 (as claimed): the commit step of a run removes no entry from the
\* fileTracking it was given
C15_CommitRemovesNothing ==
    [][\A r \in Runs :
          Commits(r) => DOMAIN OrEmpty(state[r].fileTracking)
                            \subseteq DOMAIN state'[r].fileTracking.entries]_vars

\* C15 (amended): pruning is inline: the persisted fileTracking changes only in
\* the commit step of a run, and the map that step returns holds no entry
\* older than the horizon
C15_CommitPrunesInline ==
    [][/\ store' # store => \E r \in Runs : Commits(r)
       /\ \A r \in Runs :
             Commits(r) =>
                 \A k \in DOMAIN state'[r].fileTracking.entries :
                     EntryDay(state'[r].fileTracking.entries[k])
                         >= DayOf(now) - RetentionDays]_vars

\* C15 witness: the only run so far has committed, and a file recorded as
\* processed before it is no longer in the persisted fileTracking
C15_Witness ==
    /\ starts = 1
    /\ \E r \in Runs : pc[r] = "done" /\ state[r].workflowCompleted
    /\ store.defined
    /\ \E v \in committed : v[1] \notin DOMAIN store.entries

\* C16: an entry of the fileTracking a run was given is missing from the map
\* its commit step returns only if its processedAt (or lastChecked) is more
\* than the horizon before now; the entries of the files processed or listed
\* in this run are in the map
C16_OnlyOldEntriesRemoved ==
    [][\A r \in Runs :
          Commits(r) =>
              /\ \A k \in DOMAIN OrEmpty(state[r].fileTracking) :
                    k \notin DOMAIN state'[r].fileTracking.entries
                        => EntryDay(OrEmpty(state[r].fileTracking)[k])
                               < DayOf(now) - RetentionDays
              /\ Names(state[r].processedFiles)
                    \subseteq DOMAIN state'[r].fileTracking.entries
              /\ \A k \in Names(state[r].processedFiles) :
                    state'[r].fileTracking.entries[k].processedAt = now]_vars

\* C16 witness: a commit has removed the entry of a file processed more than
\* the horizon ago and the persisted map holds an entry written now
C16_Witness ==
    /\ store.defined
    /\ \E r \in Runs : pc[r] = "done" /\ state[r].workflowCompleted
    /\ \E v \in committed : v[1] \notin DOMAIN store.entries
    /\ \E k \in DOMAIN store.entries :
          /\ "processedAt" \in DOMAIN store.entries[k]
          /\ store.entries[k].processedAt = now

\* C17: in a run that has executed CheckSFTPFiles, newFilesFound is true exactly
\* when newFiles is non-empty, and a run where it is false has stopped there:
\* no later job has left anything in its state or sent anything
C17_StopsWithoutNewFiles ==
    \A r \in Runs :
        Checked(r) =>
            /\ state[r].newFilesFound = (state[r].newFiles # <<>>)
            /\ ~state[r].newFilesFound =>
                  /\ pc[r] = "stopped"
                  /\ state[r].workflowComplete
                  /\ state[r].filesToDownload = <<>>
                  /\ state[r].downloadedFiles = <<>>
                  /\ state[r].processedFiles = <<>>
                  /\ state[r].payload = FALSE
                  /\ ~state[r].uploadCompleted
                  /\ ~state[r].workflowCompleted

\* C17 witness: a run has listed the directory against a persisted
\* fileTracking, found nothing new or changed and stopped
C17_Witness ==
    /\ store.defined
    /\ \E r \in Runs : /\ pc[r] = "stopped"
                       /\ state[r].currentFileList # <<>>
                       /\ state[r].newFiles = <<>>

\* the keys of indicatorValues, in the order they were inserted
InsertedKeys == [n \in 1..Len(ObservedIndex) |-> ObservedIndex[n].key]

\* key and the mapping key k are equal ignoring case
EqualIgnoringCase(key, k) == ToLowerCase(key) = ToLowerCase(k)

\* one of key and the mapping key k contains the other, ignoring case
SubstringRelated(key, k) ==
    \/ Includes(ToLowerCase(key), ToLowerCase(k))
    \/ Includes(ToLowerCase(k), ToLowerCase(key))

\* C18 (as claimed): the matchType of a data value is the first strategy, in the
\* order exact, case-insensitive, substring, fuzzy, default, for which the
\* index holds a candidate (a non-empty name): an equal name gives 'exact', a
\* name equal ignoring case never gives partial, fuzzy or default, and a
\* substring candidate never gives fuzzy or default
C18_FirstStrategyWins ==
    jobPayload.status = "returned" =>
        \A i \in 1..Len(jobPayload.dataValues) :
            LET k == jobPayload.dataValues[i].originalIndicator
                type == jobPayload.dataValues[i].matchType
                Named(n) == InsertedKeys[n] # ""
            IN  /\ (\E n \in 1..Len(InsertedKeys) : InsertedKeys[n] = k)
                      => type = "exact"
                /\ (\E n \in 1..Len(InsertedKeys) :
                        Named(n) /\ EqualIgnoringCase(InsertedKeys[n], k))
                      => type \in {"exact", "exact_case_insensitive"}
                /\ (\E n \in 1..Len(InsertedKeys) :
                        Named(n) /\ SubstringRelated(InsertedKeys[n], k))
                      => type \notin {"fuzzy", "default"}

\* C19 (as claimed): a data value reported 'partial' carries the value of the
\* first inserted (non-empty) key of the index that is substring-related to
\* its mapping key, whatever the key looks like (names that look like
\* integers included)
C19_PartialTakesFirstInserted ==
    jobPayload.status = "returned" =>
        \A i \in 1..Len(jobPayload.dataValues) :
            LET k == jobPayload.dataValues[i].originalIndicator
                related == {n \in 1..Len(InsertedKeys) :
                                /\ InsertedKeys[n] # ""
                                /\ SubstringRelated(InsertedKeys[n], k)}
                first == CHOOSE n \in related : \A o \in related : n <= o
            IN  jobPayload.dataValues[i].matchType = "partial"
                    => jobPayload.dataValues[i].value = ObservedIndex[first].value

\* the token-overlap score of a candidate for a target, as the fraction
\* num / den: 2 for each pair of equal tokens, 1 for each other pair where one
\* token contains the other, over the larger number of tokens
OverlapScore(target, candidate) ==
    LET targetWords == Words(target)
        candidateWords == Words(candidate)
        pairs == (1..Len(targetWords)) \X (1..Len(candidateWords))
        equal == {p \in pairs : targetWords[p[1]] = candidateWords[p[2]]}
        containing == {p \in pairs \ equal :
                          \/ Includes(targetWords[p[1]], candidateWords[p[2]])
                          \/ Includes(candidateWords[p[2]], targetWords[p[1]])}
    IN  [num |-> 2 * Cardinality(equal) + Cardinality(containing),
         den |-> IF Len(targetWords) >= Len(candidateWords)
                 THEN Len(targetWords) ELSE Len(candidateWords)]

\* the positions in candidates of the candidates scoring above 0.5 for target
AboveThreshold(target, candidates) ==
    {i \in 1..Len(candidates) :
        2 * OverlapScore(target, candidates[i]).num > OverlapScore(target, candidates[i]).den}

\* the positions of the candidates above 0.5 that no candidate outscores
BestPositions(target, candidates) ==
    {i \in AboveThreshold(target, candidates) :
        \A j \in AboveThreshold(target, candidates) :
            OverlapScore(target, candidates[i]).num * OverlapScore(target, candidates[j]).den
              >= OverlapScore(target, candidates[j]).num * OverlapScore(target, candidates[i]).den}

\* the sheet holds the single record 'Tx New Patients' = 40 and the mapping the
\* key TX_NEW
TxNewPatientsExample ==
    /\ jobInput.rows = <<[indicator |-> Str("Tx New Patients"), value |-> Num(40),
                         site |-> Undefined]>>
    /\ jobPayload.status = "returned"
    /\ \E i \in 1..Len(UsedMapping) : UsedMapping[i].key = "TX_NEW"

\* C20: for every mapping key of a job that returned and the keys of its
\* index, findFuzzyMatch returns null when no key scores above 0.5 and
\* otherwise the first of the keys with the highest score; a data value
\* reported 'fuzzy' carries the value of that key; and the record
\* 'Tx New Patients' = 40 alone gives TX_NEW a 'fuzzy' data value of 40
C20_FuzzyPicksFirstBest ==
    jobPayload.status = "returned" =>
        /\ \A i \in 1..Len(jobPayload.dataValues) :
              LET k == jobPayload.dataValues[i].originalIndicator
                  candidates == ObjectKeys(ObservedIndex)
                  bestMatch == FindFuzzyMatch(k, candidates)
                  best == BestPositions(k, candidates)
              IN  /\ bestMatch.found = (best # {})
                  /\ best # {} =>
                        bestMatch.key = candidates[CHOOSE b \in best : \A o \in best : b <= o]
                  /\ jobPayload.dataValues[i].matchType = "fuzzy" =>
                        /\ bestMatch.found
                        /\ jobPayload.dataValues[i].value = Get(ObservedIndex, bestMatch.key)
        /\ TxNewPatientsExample =>
              \A i \in 1..Len(jobPayload.dataValues) :
                  jobPayload.dataValues[i].originalIndicator = "TX_NEW" =>
                      /\ jobPayload.dataValues[i].matchType = "fuzzy"
                      /\ jobPayload.dataValues[i].value = 40

\* C20 witness: the job returned for the single record 'Tx New Patients' = 40
\* and a mapping with the key TX_NEW, whose data value is 'fuzzy'
C20_Witness ==
    /\ TxNewPatientsExample
    /\ \E i \in 1..Len(jobPayload.dataValues) :
          /\ jobPayload.dataValues[i].originalIndicator = "TX_NEW"
          /\ jobPayload.dataValues[i].matchType = "fuzzy"

\* C21: a run whose processedFiles is empty (nothing downloaded, or every
\* parse failed) leaves GenerateDHIS2Payload only by failing, is never at or
\* past UploadToDHIS2 and never has uploadCompleted; and the history of
\* uploaded files grows only in a step of UploadToDHIS2 of a run with parsed
\* files
C21_NothingUploadedFromEmptyRun ==
    [][ /\ \A r \in Runs :
              /\ (pc[r] = "GenerateDHIS2Payload" /\ state[r].processedFiles = <<>>
                    /\ pc'[r] # pc[r])
                  => (pc'[r] = "failed" /\ uploaded' = uploaded)
              /\ state'[r].processedFiles = <<>>
                  => /\ pc'[r] \notin {"UploadToDHIS2", "UpdateFileTracking", "done"}
                     /\ ~state'[r].uploadCompleted
        /\ uploaded' # uploaded
              => \E r \in Runs : /\ pc[r] = "UploadToDHIS2"
                                 /\ state[r].processedFiles # <<>> ]_vars

\* C21 witness: a run downloaded files, every parse failed, and the run failed
\* at GenerateDHIS2Payload with nothing uploaded
C21_Witness ==
    \E r \in Runs :
        /\ pc[r] = "failed"
        /\ state[r].downloadedFiles # <<>>
        /\ state[r].processedFiles = <<>>
        /\ Len(state[r].processingErrors) = Len(state[r].downloadedFiles)
        /\ ~state[r].uploadCompleted
        /\ uploaded = {}

\* run r entered the workflow past CheckSFTPFiles: it has been started and
\* the check has not filled currentFileList
EnteredAtDownload(r) ==
    /\ pc[r] \notin {"idle", "CheckSFTPFiles"}
    /\ state[r].currentFileList = <<>>
    /\ state[r].filesToDownload # <<>> \/ state[r].error # "" \/ pc[r] = "DownloadSFTPFiles"

\* C22: a run is started at DownloadSFTPFiles only with a webhook body and
\* without newFiles or a file list of CheckSFTPFiles; when the download job
\* runs it takes state.newFiles if that is non-empty, otherwise the single file
\* at state.data.filePath, otherwise nothing, and then the run fails; and a
\* commit to fileTracking is only made by a run that had files to download
C22_WebhookEntersAtDownload ==
    [][ /\ \A r \in Runs :
              /\ (pc[r] \in Ended /\ pc'[r] = "DownloadSFTPFiles")
                  => /\ state'[r].data \in WebhookBodies(dir)
                     /\ state'[r].newFiles = <<>>
                     /\ state'[r].currentFileList = <<>>
              /\ (pc[r] = "DownloadSFTPFiles" /\ state'[r] # state[r])
                  => IF state[r].newFiles # <<>>
                     THEN /\ state'[r].filesToDownload = state[r].newFiles
                          /\ pc'[r] = "ProcessExcelData"
                     ELSE IF state[r].data.filePath # ""
                     THEN /\ Len(state'[r].filesToDownload) = 1
                          /\ state'[r].filesToDownload[1].path = state[r].data.filePath
                          /\ pc'[r] = "ProcessExcelData"
                     ELSE /\ state'[r].filesToDownload = <<>>
                          /\ state'[r].downloadedFiles = <<>>
                          /\ pc'[r] = "failed"
        /\ (committed' # committed \/ store' # store)
              => \E r \in Runs : /\ pc[r] = "UpdateFileTracking"
                                 /\ state[r].filesToDownload # <<>> ]_vars

\* C22 witness: a run that never ran CheckSFTPFiles downloaded the single file
\* named by its webhook body and ran to the end, while another run entered at
\* DownloadSFTPFiles with no file named, downloaded nothing and failed
C22_Witness ==
    \E r, q \in Runs :
        /\ EnteredAtDownload(r)
        /\ pc[r] = "done"
        /\ Len(state[r].filesToDownload) = 1
        /\ state[r].filesToDownload[1].path = state[r].data.filePath
        /\ EnteredAtDownload(q)
        /\ pc[q] = "failed"
        /\ state[q].data.filePath = ""
        /\ state[q].filesToDownload = <<>>
        /\ state[q].error = "No files specified for download"

\* C23: in the commit step of a run, every entry of the fileTracking the job
\* was given whose file is not among the run's processedFiles and whose date
\* is within the horizon is in the returned fileTracking unchanged (a listed
\* file that is tracked is not marked 'checked'), and the fields of the state
\* other than fileTracking, trackingSummary, workflowCompleted and completedAt
\* keep their values
C23_UpdateLeavesTheRestAlone ==
    [][\A r \in Runs :
          Commits(r) =>
              /\ \A k \in DOMAIN OrEmpty(state[r].fileTracking) :
                    LET entry == OrEmpty(state[r].fileTracking)[k]
                    IN  (/\ k \notin Names(state[r].processedFiles)
                         /\ EntryDay(entry) >= DayOf(now) - RetentionDays)
                        => /\ k \in DOMAIN state'[r].fileTracking.entries
                           /\ state'[r].fileTracking.entries[k] = entry
              /\ \A field \in DOMAIN state[r] \ {"fileTracking", "trackingSummary",
                                                 "workflowCompleted", "completedAt"} :
                    state'[r][field] = state[r][field]]_vars

\* C23 witness: a run has committed the file it processed while another file,
\* listed by its check and recorded as processed at an earlier time, still has
\* that entry in the persisted fileTracking
C23_Witness ==
    \E r \in Runs :
        /\ pc[r] = "done"
        /\ state[r].workflowCompleted
        /\ state[r].processedFiles # <<>>
        /\ store = state[r].fileTracking
        /\ \E k \in DOMAIN store.entries :
              /\ k \notin Names(state[r].processedFiles)
              /\ k \in Names(state[r].currentFileList)
              /\ store.entries[k].status = "processed"
              /\ store.entries[k].processedAt < state[r].completedAt

\* the number of entries of list for the file at position k of excel.files
EntriesFor(list, k) ==
    Cardinality({n \in 1..Len(list) : list[n].fileName = excel.files[k]})

\* the loop of the file at position k has ended
LoopEnded(k) ==
    \/ excel.stage = "done"
    \/ k < excel.i
    \/ k = excel.i /\ (excel.processed \/ excel.retryCount >= maxRetries)

\* C24: the job reaches its end; parseExcelData is called at most 3 times for
\* a file and never again after a success; a file whose loop has ended has
\* exactly one entry, either in processedData or in errors, the entry in
\* errors standing for 3 failed calls and carrying attempts = 3; a file whose
\* loop has not ended has no entry
C24_RetryLoopTerminates ==
    /\ <>(excel.stage = "done")
    /\ [](\A k \in 1..Len(excel.files) :
             /\ excel.parses[k] <= maxRetries
             /\ EntriesFor(excel.processedData, k) + EntriesFor(excel.errors, k)
                    = IF LoopEnded(k) THEN 1 ELSE 0
             /\ EntriesFor(excel.errors, k) = 1 =>
                    /\ excel.parses[k] = maxRetries
                    /\ \A n \in 1..Len(excel.errors) :
                          excel.errors[n].fileName = excel.files[k]
                              => excel.errors[n].attempts = maxRetries)
    /\ [][\A k \in 1..Len(excel.files) :
             EntriesFor(excel.processedData, k) = 1
                 => excel'.parses[k] = excel.parses[k]]_vars

\* C24 witness: the job is done; one file was parsed at the third attempt and
\* is in processedData, another failed three times and is in errors
C24_Witness ==
    /\ excel.stage = "done"
    /\ \E k, j \in 1..Len(excel.files) :
          /\ excel.parses[k] = maxRetries
          /\ EntriesFor(excel.processedData, k) = 1
          /\ excel.parses[j] = maxRetries
          /\ EntriesFor(excel.errors, j) = 1

\* C25: in a returned payload a data value of matchType 'default' has value
\* 0, and any other data value has the value that indicatorValues holds under
\* a key which is the name of one of the records and is the parsed value of a
\* record of that name
C25_ValuesNeverFabricated ==
    jobPayload.status = "returned" =>
        \A i \in 1..Len(jobPayload.dataValues) :
            IF jobPayload.dataValues[i].matchType = "default"
            THEN jobPayload.dataValues[i].value = 0
            ELSE \E n \in 1..Len(ObservedIndex) :
                    /\ jobPayload.dataValues[i].value = ObservedIndex[n].value
                    /\ \E j \in 1..Len(ProcessedRecords) :
                          /\ RecordKey(ProcessedRecords[j]) = ObservedIndex[n].key
                          /\ ParseFloatOrZero(ProcessedRecords[j].value)
                                = jobPayload.dataValues[i].value

\* C25 witness: a returned payload with a data value matched by substring or
\* token overlap that carries a non-zero value, and a data value of matchType
\* 'default'
C25_Witness ==
    /\ jobPayload.status = "returned"
    /\ \E i, j \in 1..Len(jobPayload.dataValues) :
          /\ jobPayload.dataValues[i].matchType \in {"partial", "fuzzy"}
          /\ jobPayload.dataValues[i].value # 0
          /\ jobPayload.dataValues[j].matchType = "default"

\* the coordinates of the report configuration the job under study used
UsedCoordinates == IF jobConfig.defined THEN jobConfig.coordinates ELSE DefaultCoordinates

\* C30: in a returned payload every data value has the period and orgUnit of
\* the report configuration and its catAttrCombo as categoryOptionCombo and as
\* attributeOptionCombo, whatever period and orgUnit the rows carry, and the
\* payload has the dataSet, period and orgUnit of the configuration
C30_FixedReportCoordinates ==
    jobPayload.status = "returned" =>
        /\ jobPayload.dataSet = UsedCoordinates.dataSet
        /\ jobPayload.period = UsedCoordinates.period
        /\ jobPayload.orgUnit = UsedCoordinates.orgUnit
        /\ \A i \in 1..Len(jobPayload.dataValues) :
              /\ jobPayload.dataValues[i].period = UsedCoordinates.period
              /\ jobPayload.dataValues[i].orgUnit = UsedCoordinates.orgUnit
              /\ jobPayload.dataValues[i].categoryOptionCombo = UsedCoordinates.catAttrCombo
              /\ jobPayload.dataValues[i].attributeOptionCombo = UsedCoordinates.catAttrCombo

\* C30 witness: a payload returned under a configuration that is not the
\* default one, with a data value matched from a row whose period and orgUnit
\* differ from the configuration's
C30_Witness ==
    /\ jobPayload.status = "returned"
    /\ jobConfig.defined
    /\ jobConfig.coordinates # DefaultCoordinates
    /\ \E i \in 1..Len(jobPayload.dataValues) :
          /\ jobPayload.dataValues[i].matchType = "exact"
          /\ jobPayload.dataValues[i].value = 40
    /\ \E n \in 1..Len(jobInput.rows) :
          /\ jobInput.rows[n].period # Str(jobConfig.coordinates.period)
          /\ jobInput.rows[n].orgUnit # Str(jobConfig.coordinates.orgUnit)

\* a Direct Queries sheet has been parsed
QueriesParsed == excel.stage = "parsed" /\ excel.type = "direct_queries"

\* the positions (from 0) among the first 10 rows of the parsed sheet of the
\* rows with a string cell that contains a header keyword
KeywordRows ==
    {i \in 0..(Len(excel.rawData) - 1) : i < 10 /\ HasCommonHeaders(excel.rawData[i + 1])}

\* C26: for a parsed Direct Queries sheet the header row is the first of the
\* first 10 rows with a string cell containing a header keyword, row 0 when
\* none of them has one, and the data rows are exactly the rows below it
C26_HeaderRowDetection ==
    (QueriesParsed /\ excel.rawData # <<>>) =>
        /\ excel.parsed.headerRowIndex
              = IF KeywordRows = {} THEN 0
                ELSE CHOOSE i \in KeywordRows : \A j \in KeywordRows : i <= j
        /\ excel.parsed.dataRows
              = [n \in 1..(Len(excel.rawData) - excel.parsed.headerRowIndex - 1) |->
                    excel.rawData[excel.parsed.headerRowIndex + 1 + n]]

\* C26 witness: a parsed sheet with title rows above a header row that was
\* found, and records read from the rows below it
C26_Witness ==
    /\ QueriesParsed
    /\ excel.parsed.headerRowIndex > 0
    /\ excel.parsed.headerRowIndex < Len(excel.rawData) - 1
    /\ excel.parsed.queries # <<>>

\* the columns (from 0) of a header row whose cell matches a pattern of
\* field f, anchored or flexible
FieldColumns(headers, f) ==
    {c \in 0..(Len(headers) - 1) :
        /\ Truthy(headers[c + 1])
        /\ LET headerStr == Trim(ToLowerCase(JsString(headers[c + 1])))
           IN  \/ \E p \in ExactHits(headerStr) : ExactPatterns[p].field = f
               \/ \E p \in 1..Len(FlexiblePatterns) :
                     /\ FlexiblePatterns[p].field = f
                     /\ AnyIncluded(headerStr, FlexiblePatterns[p].words)}

\* C27: the header mapping is first match wins per field: when several cells
\* of the header row match the patterns of one of the fields site, indicator,
\* value, period and orgUnit, the field is mapped to the leftmost of these
\* columns, column 0 included
C27_LeftmostColumnWins ==
    (QueriesParsed /\ excel.rawData # <<>>) =>
        LET headers == excel.rawData[excel.parsed.headerRowIndex + 1]
        IN  \A f \in {"site", "indicator", "value", "period", "orgUnit"} :
               FieldColumns(headers, f) # {} =>
                   /\ f \in DOMAIN excel.parsed.headerMap
                   /\ \A c \in FieldColumns(headers, f) : excel.parsed.headerMap[f] <= c

IndicatorsParsed == excel.stage = "parsed" /\ excel.type = "hiv_indicators"

\* a cell that is empty, or blank after trimming
BlankCell(cell) ==
    \/ cell.t = "undefined"
    \/ cell.t = "string" /\ Trim(cell.s) = ""

\* the cell of a data row that field f is read from: the mapped column, or
\* the positional column when the header row gave no mapping
FieldCell(row, headerMap, f, position) ==
    IF f \in DOMAIN headerMap THEN CellOf(row, headerMap, f)
    ELSE IF position \in DOMAIN row THEN row[position] ELSE Undefined

\* C28: a data row whose indicator cell (or site cell, in a sheet with sites)
\* is empty or blank after trimming produces no record, and the indicator of
\* every record is non-empty and trimmed
C28_BlankIndicatorGivesNoRecord ==
    /\ QueriesParsed =>
          /\ \A n \in 1..Len(excel.parsed.dataRows) :
                LET row == excel.parsed.dataRows[n]
                IN  (\/ BlankCell(FieldCell(row, excel.parsed.headerMap, "indicator", 2))
                     \/ BlankCell(FieldCell(row, excel.parsed.headerMap, "site", 1)))
                    => \A q \in 1..Len(excel.parsed.queries) :
                          excel.parsed.queries[q].rowIndex # n
          /\ \A q \in 1..Len(excel.parsed.queries) :
                /\ excel.parsed.queries[q].indicator # ""
                /\ Trim(excel.parsed.queries[q].indicator) = excel.parsed.queries[q].indicator
    /\ IndicatorsParsed =>
          /\ \A n \in 1..Len(excel.rawData) :
                BlankCell(excel.rawData[n].indicator)
                    => \A q \in 1..Len(excel.parsed.indicators) :
                          excel.parsed.indicators[q].rowIndex # n
          /\ \A q \in 1..Len(excel.parsed.indicators) :
                LET name == JsString(excel.parsed.indicators[q].indicator)
                IN  name # "" /\ Trim(name) = name

\* C29: every record that a parser emits has a finite number as value: a
\* value cell that is not a number gives 0, never NaN, and its row still
\* gives a record
C29_ValuesAreFiniteNumbers ==
    /\ QueriesParsed =>
          \A q \in 1..Len(excel.parsed.queries) :
             excel.parsed.queries[q].value.t = "number"
    /\ IndicatorsParsed =>
          /\ Len(excel.parsed.indicators) = Len(excel.rawData)
          /\ \A q \in 1..Len(excel.parsed.indicators) :
                excel.parsed.indicators[q].value.t = "number"

====
